---------------------------- MODULE Spec2Model ----------------------------
(***************************************************************************)
(* Model of the IPC layer of the equilibria controller.                    *)
(*                                                                         *)
(* The repository holds two implementations of the protocol dispatcher:    *)
(*   - controller/main.cpp: process_command over the shared json_utils.hpp *)
(*     codec (extract_json_field, parse_message, serialize_ack, ...);      *)
(*   - controller/src/ipc_protocol.cpp: IPCProtocol::process_message over  *)
(*     third_party/json/minimal_json.hpp (JsonObject::parse).              *)
(* A behaviour is a run of one of them: the variable impl says which.      *)
(* Spec runs a dispatcher on whole lines, one command at a time;           *)
(* SpecThreads runs the threads of a program statement by statement: the   *)
(* client threads of IpcServer inside IPCProtocol's handlers, and the      *)
(* command and telemetry threads of main.cpp's handle_client.              *)
(*                                                                         *)
(* Text is modelled as text: a line, a payload and a response are strings, *)
(* scanned character by character as the C++ code scans them.  Positions   *)
(* are 0-based as in std::string.  A double is modelled in tenths (42.5 is *)
(* 425): the inputs carry at most one decimal digit.                       *)
(***************************************************************************)
EXTENDS Integers, Sequences, FiniteSets, TLC

(***************************************************************************)
(* std::string primitives                                                  *)
(***************************************************************************)

\* std::string::npos
NPOS == -1

\* s[i]; the empty string stands for the terminating '\0' read at i = size()
CharAt(s, i) == IF i >= 0 /\ i < Len(s) THEN SubSeq(s, i + 1, i + 1) ELSE ""

\* s.substr(pos, n), for pos <= size()
Substr(s, pos, n) ==
    LET last == IF pos + n > Len(s) THEN Len(s) ELSE pos + n
    IN  SubSeq(s, pos + 1, last)

\* s.substr(pos)
SubstrFrom(s, pos) == SubSeq(s, pos + 1, Len(s))

\* s.find(needle, from): the first position at or after from where needle
\* starts, npos when there is none
RECURSIVE Find(_, _, _)
Find(s, needle, from) ==
    IF from + Len(needle) > Len(s) THEN NPOS
    ELSE IF SubSeq(s, from + 1, from + Len(needle)) = needle THEN from
    ELSE Find(s, needle, from + 1)

\* s.find(c) for one character c, by its positions rather than by a walk
FindChar(s, c) ==
    LET at == { k \in 0..(Len(s) - 1) : CharAt(s, k) = c }
    IN  IF at = {} THEN NPOS ELSE CHOOSE k \in at : \A j \in at : k <= j

\* s.find(needle) != npos
Contains(s, needle) == Find(s, needle, 0) # NPOS

\* std::isspace in the "C" locale
IsSpace(c) == c \in {" ", "\t", "\n", "\r", "\f"}

\* std::isdigit
IsDigit(c) == c \in {"0", "1", "2", "3", "4", "5", "6", "7", "8", "9"}

DigitVal(c) ==
    CASE c = "0" -> 0 [] c = "1" -> 1 [] c = "2" -> 2 [] c = "3" -> 3
      [] c = "4" -> 4 [] c = "5" -> 5 [] c = "6" -> 6 [] c = "7" -> 7
      [] c = "8" -> 8 [] c = "9" -> 9

\* std::optional<T>
None == [has |-> FALSE, val |-> ""]
Some(v) == [has |-> TRUE, val |-> v]

(***************************************************************************)
(* shared/include/json_utils.hpp: the envelope codec of main.cpp           *)
(***************************************************************************)

\* ipc::PROTOCOL_VERSION
PROTOCOL_VERSION == "v0"

\* One character of escape_json_string.  The control characters the model's
\* alphabet can write are the five named ones; every other character is
\* >= 0x20 here and is copied.
EscapeChar(c) ==
    CASE c = "\"" -> "\\\""
      [] c = "\\" -> "\\\\"
      [] c = "\f" -> "\\f"
      [] c = "\n" -> "\\n"
      [] c = "\r" -> "\\r"
      [] c = "\t" -> "\\t"
      [] OTHER    -> c

RECURSIVE escape_json_string(_)
escape_json_string(input) ==
    IF input = "" THEN ""
    ELSE EscapeChar(CharAt(input, 0)) \o escape_json_string(SubstrFrom(input, 1))

\* ack is an ipc::AckPayload: [command, status, message : optional string]
serialize_ack(ack) ==
    "{" \o "\"command\":\"" \o escape_json_string(ack.command) \o "\","
        \o "\"status\":\"" \o escape_json_string(ack.status) \o "\""
        \o (IF ack.message.has
            THEN ",\"message\":\"" \o escape_json_string(ack.message.val) \o "\""
            ELSE "")
        \o "}"

serialize_message(type, payload_json) ==
    "{" \o "\"version\":\"" \o PROTOCOL_VERSION \o "\","
        \o "\"type\":\"" \o escape_json_string(type) \o "\","
        \o "\"payload\":" \o payload_json
        \o "}\n"

create_ack_message(ack) == serialize_message("ack", serialize_ack(ack))

\* the loop "while (value_start < json.size() && isspace(json[value_start]))"
RECURSIVE SkipSpace(_, _)
SkipSpace(json, i) ==
    IF i < Len(json) /\ IsSpace(CharAt(json, i)) THEN SkipSpace(json, i + 1) ELSE i

\* the backslashes counted before a quote at end_quote: check_pos walks down
\* from end_quote - 1 while check_pos >= value_start and json[check_pos] = '\'
RECURSIVE BackslashCount(_, _, _)
BackslashCount(json, check_pos, value_start) ==
    IF check_pos >= value_start /\ CharAt(json, check_pos) = "\\"
    THEN 1 + (IF check_pos = 0 THEN 0
              ELSE BackslashCount(json, check_pos - 1, value_start))
    ELSE 0

\* the string branch: the first quote after value_start that an even number
\* of backslashes precedes ends the value
RECURSIVE ScanString(_, _, _)
ScanString(json, value_start, end_quote) ==
    IF end_quote >= Len(json) THEN None
    ELSE IF CharAt(json, end_quote) = "\""
            /\ BackslashCount(json, end_quote - 1, value_start) % 2 = 0
         THEN Some(Substr(json, value_start + 1, end_quote - value_start - 1))
         ELSE ScanString(json, value_start, end_quote + 1)

\* the object branch: end_pos once brace_count is 0 or the text ends
RECURSIVE ScanObject(_, _, _)
ScanObject(json, end_pos, brace_count) ==
    IF end_pos < Len(json) /\ brace_count > 0
    THEN ScanObject(json, end_pos + 1,
                    IF CharAt(json, end_pos) = "{" THEN brace_count + 1
                    ELSE IF CharAt(json, end_pos) = "}" THEN brace_count - 1
                    ELSE brace_count)
    ELSE end_pos

\* the number, boolean or null branch: end_pos at the first delimiter
RECURSIVE ScanScalar(_, _)
ScanScalar(json, end_pos) ==
    IF end_pos < Len(json)
       /\ CharAt(json, end_pos) \notin {",", "}", "]"}
       /\ ~IsSpace(CharAt(json, end_pos))
    THEN ScanScalar(json, end_pos + 1)
    ELSE end_pos

extract_json_field(json, field) ==
    LET search == "\"" \o field \o "\""
        pos == Find(json, search, 0)
    IN  IF pos = NPOS THEN None
        ELSE LET colon_pos == Find(json, ":", pos)
             IN  IF colon_pos = NPOS THEN None
                 ELSE LET value_start == SkipSpace(json, colon_pos + 1)
                          first_char  == CharAt(json, value_start)
                      IN  IF value_start >= Len(json) THEN None
                          ELSE IF first_char = "\""
                               THEN ScanString(json, value_start, value_start + 1)
                          ELSE IF first_char = "{"
                               THEN Some(Substr(json, value_start,
                                        ScanObject(json, value_start + 1, 1) - value_start))
                          ELSE Some(Substr(json, value_start,
                                        ScanScalar(json, value_start) - value_start))

\* ipc::Message [version, type, payload_json], or nullopt
parse_message(json) ==
    LET version == extract_json_field(json, "version")
        type    == extract_json_field(json, "type")
        payload == extract_json_field(json, "payload")
    IN  IF ~version.has THEN None
        ELSE IF ~type.has THEN None
        ELSE IF ~payload.has THEN None
        ELSE Some([version |-> version.val, type |-> type.val,
                   payload_json |-> payload.val])

\* std::stod on the decimal forms [-]digits[.digits]: leading white space is
\* skipped, the longest numeric prefix is converted, and no digits at all is
\* std::invalid_argument (ok = FALSE).  The value is in tenths.
RECURSIVE ScanDigits(_, _)
ScanDigits(str, i) ==
    IF IsDigit(CharAt(str, i)) THEN ScanDigits(str, i + 1) ELSE i

RECURSIVE DigitsValue(_, _, _, _)
DigitsValue(str, i, stop, acc) ==
    IF i >= stop THEN acc
    ELSE DigitsValue(str, i + 1, stop, acc * 10 + DigitVal(CharAt(str, i)))

stod(str) ==
    LET start    == SkipSpace(str, 0)
        negative == CharAt(str, start) = "-"
        int0     == IF CharAt(str, start) \in {"-", "+"} THEN start + 1 ELSE start
        int1     == ScanDigits(str, int0)
        hasFrac  == CharAt(str, int1) = "." /\ (int1 > int0 \/ IsDigit(CharAt(str, int1 + 1)))
        fracDigit == IF hasFrac /\ IsDigit(CharAt(str, int1 + 1))
                     THEN DigitVal(CharAt(str, int1 + 1)) ELSE 0
        tenths   == DigitsValue(str, int0, int1, 0) * 10 + fracDigit
    IN  IF int1 = int0 /\ ~hasFrac
        THEN [ok |-> FALSE, val |-> 0]
        ELSE [ok |-> TRUE, val |-> IF negative THEN 0 - tenths ELSE tenths]

\* std::optional<double>
NoDouble == [has |-> FALSE, val |-> 0]

\* try { return std::stod(value) } catch (...) { return std::nullopt }
extract_optional_double(json, field) ==
    LET value_str == extract_json_field(json, field)
    IN  IF ~value_str.has THEN NoDouble
        ELSE IF stod(value_str.val).ok
             THEN [has |-> TRUE, val |-> stod(value_str.val).val]
             ELSE NoDouble

\* std::optional<ipc::SetModePayload>
parse_set_mode(payload_json) ==
    LET mode == extract_json_field(payload_json, "mode")
    IN  IF ~mode.has THEN None ELSE Some([mode |-> mode.val])

\* std::optional<ipc::SetTargetsPayload>: always engaged
parse_set_targets(payload_json) ==
    Some([target_abv  |-> extract_optional_double(payload_json, "target_abv"),
          target_flow |-> extract_optional_double(payload_json, "target_flow")])

(***************************************************************************)
(* controller/main.cpp: the TCP controller and its dispatcher              *)
(***************************************************************************)

\* std::to_string(double) ("%f") of a non-negative value given in tenths
to_string(tenths) ==
    ToString(tenths \div 10) \o "." \o ToString(tenths % 10) \o "00000"

optional_double_to_json(opt) == IF opt.has THEN to_string(opt.val) ELSE "null"

\* struct ControllerState of main.cpp, as constructed
MainInitState ==
    [running |-> TRUE, mode |-> "IDLE", target_abv |-> 920, target_flow |-> 2500]

\* ControllerState::get_telemetry: the mode and the simulated readings
get_telemetry(st, now_ms) ==
    [timestamp_ms |-> now_ms, mode |-> st.mode,
     temps |-> [vapour_head |-> [has |-> TRUE, val |-> 782],
                boiler_liquid |-> [has |-> TRUE, val |-> 915],
                pcb_environment |-> [has |-> TRUE, val |-> 421]],
     pressures |-> [ambient |-> [has |-> TRUE, val |-> 1013], vapour |-> NoDouble],
     flow_ml_min |-> [has |-> TRUE, val |-> 2400],
     valves |-> [reflux_control |-> 65, product_takeoff |-> 30],
     heaters |-> [heater_1 |-> 70, heater_2 |-> 70],
     faults |-> <<>>]

\* the faults vector is empty in every sample main.cpp builds
serialize_telemetry(t) ==
    "{" \o "\"timestamp_ms\":" \o ToString(t.timestamp_ms) \o ","
        \o "\"mode\":\"" \o escape_json_string(t.mode) \o "\","
        \o "\"temps\":{"
        \o "\"vapour_head\":" \o optional_double_to_json(t.temps.vapour_head) \o ","
        \o "\"boiler_liquid\":" \o optional_double_to_json(t.temps.boiler_liquid) \o ","
        \o "\"pcb_environment\":" \o optional_double_to_json(t.temps.pcb_environment)
        \o "},"
        \o "\"pressures\":{"
        \o "\"ambient\":" \o optional_double_to_json(t.pressures.ambient) \o ","
        \o "\"vapour\":" \o optional_double_to_json(t.pressures.vapour)
        \o "},"
        \o "\"flow_ml_min\":" \o optional_double_to_json(t.flow_ml_min) \o ","
        \o "\"valves\":{"
        \o "\"reflux_control\":" \o ToString(t.valves.reflux_control) \o ","
        \o "\"product_takeoff\":" \o ToString(t.valves.product_takeoff)
        \o "},"
        \o "\"heaters\":{"
        \o "\"heater_1\":" \o ToString(t.heaters.heater_1) \o ","
        \o "\"heater_2\":" \o ToString(t.heaters.heater_2)
        \o "},"
        \o "\"faults\":[" \o "]"
        \o "}"

create_telemetry_message(t) == serialize_message("telemetry", serialize_telemetry(t))

\* a variant of the set_mode branch that builds the new state from the mode
\* alone, so that the targets fall back to zero
MainSetMode_ResetsTargets(st, msg) ==
    LET payload == parse_set_mode(msg.payload_json)
    IN  IF ~payload.has
        THEN [state |-> st,
              ack |-> [command |-> msg.type, status |-> "error",
                       message |-> Some("Invalid set_mode payload")]]
        ELSE IF payload.val.mode = "IDLE" \/ payload.val.mode = "ACTIVE"
        THEN [state |-> [st EXCEPT !.mode = payload.val.mode,
                                   !.target_abv = 0, !.target_flow = 0],
              ack |-> [command |-> msg.type, status |-> "ok",
                       message |-> Some("Mode set to " \o payload.val.mode)]]
        ELSE [state |-> st,
              ack |-> [command |-> msg.type, status |-> "error",
                       message |-> Some("Invalid mode value: " \o payload.val.mode)]]

\* the set_mode branch of process_command: the new state and the ack
MainSetMode(st, msg) ==
    LET payload == parse_set_mode(msg.payload_json)
    IN  IF ~payload.has
        THEN [state |-> st,
              ack |-> [command |-> msg.type, status |-> "error",
                       message |-> Some("Invalid set_mode payload")]]
        ELSE IF payload.val.mode = "IDLE" \/ payload.val.mode = "ACTIVE"
        THEN [state |-> [st EXCEPT !.mode = payload.val.mode],
              ack |-> [command |-> msg.type, status |-> "ok",
                       message |-> Some("Mode set to " \o payload.val.mode)]]
        ELSE [state |-> st,
              ack |-> [command |-> msg.type, status |-> "error",
                       message |-> Some("Invalid mode value: " \o payload.val.mode)]]

\* a variant of the two assignments that clears the target_flow a payload omits
MainApplyTargets_ClearsOmitted(st, p) ==
    [st EXCEPT !.target_abv  = IF p.target_abv.has THEN p.target_abv.val ELSE @,
               !.target_flow = IF p.target_flow.has THEN p.target_flow.val ELSE 0]

\* the two assignments of the set_targets branch
MainApplyTargets(st, p) ==
    [st EXCEPT !.target_abv  = IF p.target_abv.has THEN p.target_abv.val ELSE @,
               !.target_flow = IF p.target_flow.has THEN p.target_flow.val ELSE @]

\* the set_targets branch of process_command: no range check is made
MainSetTargets(st, msg) ==
    LET payload == parse_set_targets(msg.payload_json)
    IN  IF ~payload.has
        THEN [state |-> st,
              ack |-> [command |-> msg.type, status |-> "error",
                       message |-> Some("Invalid set_targets payload")]]
        ELSE [state |-> MainApplyTargets(st, payload.val),
              ack |-> [command |-> msg.type, status |-> "ok",
                       message |-> Some("Targets updated")]]

\* process_command: the state afterwards and the one message sent
process_command(st, msg, now_ms) ==
    IF msg.version # PROTOCOL_VERSION
    THEN [state |-> st,
          sent |-> create_ack_message(
                     [command |-> msg.type, status |-> "error",
                      message |-> Some("Unsupported protocol version: " \o msg.version)])]
    ELSE IF msg.type = "get_telemetry"
    THEN [state |-> st, sent |-> create_telemetry_message(get_telemetry(st, now_ms))]
    ELSE IF msg.type = "set_mode"
    THEN [state |-> MainSetMode(st, msg).state,
          sent |-> create_ack_message(MainSetMode(st, msg).ack)]
    ELSE IF msg.type = "set_targets"
    THEN [state |-> MainSetTargets(st, msg).state,
          sent |-> create_ack_message(MainSetTargets(st, msg).ack)]
    ELSE [state |-> st,
          sent |-> create_ack_message(
                     [command |-> msg.type, status |-> "error",
                      message |-> Some("Unknown command type: " \o msg.type)])]

(***************************************************************************)
(* controller/third_party/json/minimal_json.hpp: JsonObject                *)
(***************************************************************************)

\* an empty std::map<std::string, std::string>
EmptyMap == [k \in {} |-> ""]

\* strings_[key] = value
MapSet(m, key, value) ==
    [k \in (DOMAIN m) \cup {key} |-> IF k = key THEN value ELSE m[k]]

\* "while (pos < size && jsonStr[pos] != '"') pos++"
RECURSIVE ScanToQuote(_, _)
ScanToQuote(jsonStr, pos) ==
    IF pos < Len(jsonStr) /\ CharAt(jsonStr, pos) # "\""
    THEN ScanToQuote(jsonStr, pos + 1) ELSE pos

\* "while (pos < size && (isspace(jsonStr[pos]) || jsonStr[pos] == sep)) pos++"
RECURSIVE SkipSpaceAnd(_, _, _)
SkipSpaceAnd(jsonStr, pos, sep) ==
    IF pos < Len(jsonStr) /\ (IsSpace(CharAt(jsonStr, pos)) \/ CharAt(jsonStr, pos) = sep)
    THEN SkipSpaceAnd(jsonStr, pos + 1, sep) ELSE pos

\* "while (pos < size && (isdigit(c) || c == '.' || c == '-')) pos++"
RECURSIVE ScanNumber(_, _)
ScanNumber(jsonStr, pos) ==
    IF pos < Len(jsonStr)
       /\ (IsDigit(CharAt(jsonStr, pos)) \/ CharAt(jsonStr, pos) \in {".", "-"})
    THEN ScanNumber(jsonStr, pos + 1) ELSE pos

\* The body of the while loop of JsonObject::parse from position pos with the
\* members parsed so far.  The result is [kind |-> "ok", obj |-> the map],
\* [kind |-> "throw", what |-> e.what()], or [kind |-> "ub"] when the value is
\* read at jsonStr[size + 1], behind an unterminated key.
RECURSIVE ParseMembers(_, _, _)
ParseMembers(jsonStr, pos, obj) ==
    LET p1 == SkipSpace(jsonStr, pos)
    IN  IF pos >= Len(jsonStr) \/ p1 >= Len(jsonStr) \/ CharAt(jsonStr, p1) = "}"
        THEN [kind |-> "ok", obj |-> obj, what |-> ""]
        ELSE IF CharAt(jsonStr, p1) # "\""
        THEN [kind |-> "throw", obj |-> EmptyMap, what |-> "Invalid JSON: expected key"]
        ELSE
        LET keyStart == p1 + 1
            keyEnd   == ScanToQuote(jsonStr, keyStart)
            key      == Substr(jsonStr, keyStart, keyEnd - keyStart)
            p2       == SkipSpaceAnd(jsonStr, keyEnd + 1, ":")
            c        == CharAt(jsonStr, p2)
        IN  IF p2 > Len(jsonStr)
            THEN [kind |-> "ub", obj |-> EmptyMap, what |-> ""]
            ELSE IF c = "\""
            THEN LET valueEnd == ScanToQuote(jsonStr, p2 + 1)
                 IN  ParseMembers(jsonStr, SkipSpaceAnd(jsonStr, valueEnd + 1, ","),
                         MapSet(obj, key, Substr(jsonStr, p2 + 1, valueEnd - (p2 + 1))))
            ELSE IF IsDigit(c) \/ c = "-"
            THEN LET valueEnd == ScanNumber(jsonStr, p2)
                 IN  ParseMembers(jsonStr, SkipSpaceAnd(jsonStr, valueEnd, ","),
                         MapSet(obj, key, Substr(jsonStr, p2, valueEnd - p2)))
            ELSE IF Substr(jsonStr, p2, 4) = "true"
            THEN ParseMembers(jsonStr, SkipSpaceAnd(jsonStr, p2 + 4, ","),
                         MapSet(obj, key, "true"))
            ELSE IF Substr(jsonStr, p2, 5) = "false"
            THEN ParseMembers(jsonStr, SkipSpaceAnd(jsonStr, p2 + 5, ","),
                         MapSet(obj, key, "false"))
            ELSE ParseMembers(jsonStr, SkipSpaceAnd(jsonStr, p2, ","), obj)

\* JsonObject::parse
JsonParse(jsonStr) ==
    LET pos == Find(jsonStr, "{", 0)
    IN  IF pos = NPOS
        THEN [kind |-> "throw", obj |-> EmptyMap,
              what |-> "Invalid JSON: missing opening brace"]
        ELSE ParseMembers(jsonStr, pos + 1, EmptyMap)

\* JsonObject::has
Has(obj, key) == key \in DOMAIN obj

\* JsonObject::getString with the default ""
GetString(obj, key) == IF key \in DOMAIN obj THEN obj[key] ELSE ""

\* JsonObject::getNumber with the default 0.0: std::stod may throw
GetNumber(obj, key) ==
    IF key \in DOMAIN obj THEN stod(obj[key]) ELSE [ok |-> TRUE, val |-> 0]

(***************************************************************************)
(* controller/src/ipc_protocol.cpp: IPCProtocol                            *)
(*                                                                         *)
(* The text of handle_set_targets, generate_telemetry, create_ok_ack and   *)
(* create_error_ack is damaged in the source (two variants of each are     *)
(* spliced together at lines 88-152).  The model follows the surviving     *)
(* statements; what it takes from a fragment is said at the definition.    *)
(***************************************************************************)

\* ControllerState::ControllerState
ProtoInitState == [mode |-> "IDLE", target_abv |-> 0, target_flow |-> 0]

\* create_ok_ack: version "v0", type "ack", payload {status "ok"} (the
\* statements surviving at lines 131-139), dumped with the keys in order
create_ok_ack ==
    "{\"payload\":{\"status\":\"ok\"},\"type\":\"ack\",\"version\":\"v0\"}"

\* create_error_ack: as create_ok_ack with status "error" and the message
\* (the statements surviving at lines 144-151)
create_error_ack(message) ==
    "{\"payload\":{\"message\":\"" \o escape_json_string(message)
        \o "\",\"status\":\"error\"},\"type\":\"ack\",\"version\":\"v0\"}"

\* a variant of handle_get_telemetry that also switches the mode to ACTIVE
handle_get_telemetry_SetsMode(st, msg) ==
    [state |-> [st EXCEPT !.mode = "ACTIVE"], response |-> create_ok_ack]

\* handle_get_telemetry
handle_get_telemetry(st, msg) == [state |-> st, response |-> create_ok_ack]

\* handle_set_mode
handle_set_mode(st, msg) ==
    IF ~Has(msg, "mode")
    THEN [state |-> st, response |-> create_error_ack("Missing 'mode' field")]
    ELSE LET mode_str == GetString(msg, "mode")
         IN  IF mode_str = "IDLE"
             THEN [state |-> [st EXCEPT !.mode = "IDLE"], response |-> create_ok_ack]
             ELSE IF mode_str = "ACTIVE"
             THEN [state |-> [st EXCEPT !.mode = "ACTIVE"], response |-> create_ok_ack]
             ELSE [state |-> st,
                   response |-> create_error_ack("Invalid mode: " \o mode_str)]

\* The range test of handle_set_targets.  Its condition is lost at line 104,
\* where only the end of its message, "abv out of range (0-100)", survives;
\* the bounds are those of the message and of ipc_protocol.h:25.
AbvOutOfRange(abv) == abv < 0 \/ abv > 1000

\* the two assignments at lines 110-111
ProtoApplyTargets(st, abv, flow) ==
    [st EXCEPT !.target_abv = abv, !.target_flow = flow]

\* handle_set_targets; a std::stod that throws inside getNumber leaves through
\* process_message's catch, which answers "Error: " + e.what()
handle_set_targets(st, msg) ==
    IF ~Has(msg, "target_abv")
    THEN [state |-> st, response |-> create_error_ack("Missing 'target_abv' field")]
    ELSE IF ~Has(msg, "target_flow")
    THEN [state |-> st, response |-> create_error_ack("Missing 'target_flow' field")]
    ELSE LET abv  == GetNumber(msg, "target_abv")
             flow == GetNumber(msg, "target_flow")
         IN  IF ~abv.ok \/ ~flow.ok
             THEN [state |-> st, response |-> create_error_ack("Error: stod")]
             ELSE IF AbvOutOfRange(abv.val)
             THEN [state |-> st,
                   response |-> create_error_ack("target_abv out of range (0-100)")]
             ELSE IF flow.val < 0
             THEN [state |-> st,
                   response |-> create_error_ack("target_flow cannot be negative")]
             ELSE [state |-> ProtoApplyTargets(st, abv.val, flow.val),
                   response |-> create_ok_ack]

\* e.what() of the std::out_of_range that std::string::substr throws
SubstrOutOfRange == "basic_string::substr"

\* IPCProtocol::process_message: the state afterwards and the response
\* returned.  Where JsonObject::parse reads jsonStr[size + 1], the byte it
\* gets decides nothing: if it is a quote or starts a number, substr is called
\* with a start behind the end (lines 66, 72), and if not, substr(pos, 4) is
\* (line 73); each throws std::out_of_range, which the catch answers.
process_message(st, line) ==
    LET parsed == JsonParse(line)
        msg    == parsed.obj
    IN  IF parsed.kind = "throw"
        THEN [state |-> st, response |-> create_error_ack("Error: " \o parsed.what)]
        ELSE IF parsed.kind = "ub"
        THEN [state |-> st, response |-> create_error_ack("Error: " \o SubstrOutOfRange)]
        ELSE IF ~Has(msg, "version")
        THEN [state |-> st, response |-> create_error_ack("Missing 'version' field")]
        ELSE IF GetString(msg, "version") # "v0"
        THEN [state |-> st,
              response |-> create_error_ack("Unknown version: " \o GetString(msg, "version"))]
        ELSE IF ~Has(msg, "type")
        THEN [state |-> st, response |-> create_error_ack("Missing 'type' field")]
        ELSE LET type == GetString(msg, "type")
             IN  IF type = "get_telemetry" THEN handle_get_telemetry(st, msg)
                 ELSE IF type = "set_mode" THEN handle_set_mode(st, msg)
                 ELSE IF type = "set_targets" THEN handle_set_targets(st, msg)
                 ELSE [state |-> st,
                       response |-> create_error_ack("Unknown message type: " \o type)]

(***************************************************************************)
(* The lines a client sends.  The nested form is the envelope of the tests *)
(* (controller/tests/test_ipc_protocol.cpp) and of main.cpp; the flat form *)
(* carries the payload's members beside version and type, which is what    *)
(* ipc_protocol.cpp:45 says minimal_json is given.  Each implementation is *)
(* sent every command in its own form and a sample in the other form.      *)
(***************************************************************************)

Versions == {"v0", "v1"}

AbvTexts == {"-10.0", "0.0", "42.5", "100.0", "150.0"}

FlowTexts == {"-1.0", "0.0", "1.5"}

\* the members of a set_targets payload that gives target_abv the text a and
\* target_flow the text f; "" stands for a field that is left out
TargetsMember(a, f) ==
    (IF a = "" THEN "" ELSE "\"target_abv\":" \o a)
        \o (IF a # "" /\ f # "" THEN "," ELSE "")
        \o (IF f = "" THEN "" ELSE "\"target_flow\":" \o f)

\* each target present or omitted
TargetsMembers ==
    { TargetsMember(a, f) : a \in AbvTexts \cup {""}, f \in FlowTexts \cup {""} }

\* ipc::Mode
Modes == {"IDLE", "ACTIVE"}

\* a string that names no mode
OtherModes == {"BOGUS"}

\* the member of a set_mode payload that gives mode the string m
ModeMember(m) == "\"mode\":\"" \o m \o "\""

\* the members of a set_mode payload: a mode, another string, a number, or
\* no mode
ModeMembers ==
    { ModeMember(m) : m \in Modes \cup OtherModes } \cup {"\"mode\":123", ""}

TelemetryMembers == {"", "\"verbose\":true"}

\* the (type, members) pairs of the commands sent
Commands ==
    ({"set_targets"} \X TargetsMembers)
    \cup ({"set_mode"} \X ModeMembers)
    \cup ({"get_telemetry"} \X TelemetryMembers)
    \cup ({"unknown_command"} \X {""})

\* one command of each type
CommandsSample ==
    {<<"set_targets", TargetsMember("42.5", "1.5")>>,
     <<"set_mode", ModeMember("ACTIVE")>>,
     <<"get_telemetry", "">>,
     <<"unknown_command", "">>}

NestedLine(version, type, members) ==
    "{\"version\":\"" \o version \o "\",\"type\":\"" \o type
        \o "\",\"payload\":{" \o members \o "}}"

FlatLine(version, type, members) ==
    "{\"version\":\"" \o version \o "\",\"type\":\"" \o type \o "\""
        \o (IF members = "" THEN "" ELSE "," \o members) \o "}"

\* every command under the supported version, the sample under both
CommandsSent ==
    ({"v0"} \X Commands) \cup (Versions \X CommandsSample)

NestedLines == { NestedLine(vc[1], vc[2][1], vc[2][2]) : vc \in CommandsSent }

FlatLines == { FlatLine(vc[1], vc[2][1], vc[2][2]) : vc \in CommandsSent }

NestedSample == { NestedLine(v, c[1], c[2]) : v \in Versions, c \in CommandsSample }

FlatSample == { FlatLine(v, c[1], c[2]) : v \in Versions, c \in CommandsSample }

\* the lines of the tests missing_version_field, missing_type_field and
\* missing_payload_field
LacksVersion == "{\"type\":\"get_telemetry\",\"payload\":{}}"

LacksType == "{\"version\":\"v0\",\"payload\":{}}"

LacksPayload == "{\"version\":\"v0\",\"type\":\"get_telemetry\"}"

MissingFieldLines == {LacksVersion, LacksType, LacksPayload}

\* the lines of the tests set_mode_missing_mode_field and
\* set_mode_invalid_mode_type
InvalidModeLines ==
    {NestedLine("v0", "set_mode", ""), NestedLine("v0", "set_mode", "\"mode\":123")}

\* the lines of the tests set_targets_invalid_abv_type and
\* set_targets_invalid_flow_type
InvalidAbvType ==
    NestedLine("v0", "set_targets", "\"target_abv\":\"not_a_number\",\"target_flow\":1.5")

InvalidFlowType ==
    NestedLine("v0", "set_targets", "\"target_abv\":42.5,\"target_flow\":\"not_a_number\"")

InvalidTypeLines == {InvalidAbvType, InvalidFlowType}

\* the lines sent to main.cpp; the empty line is what two newlines in a row
\* make of the bytes between them
MainLines ==
    NestedLines \cup FlatSample \cup MissingFieldLines \cup {""} \cup InvalidTypeLines

\* the lines of the tests invalid_json_malformed, invalid_json_empty_string
\* and invalid_json_not_object
Malformed == "{\"version\":\"v0\",\"type\":}"

NotObject == "[\"array\",\"not\",\"object\"]"

\* a line that ends inside a key
Truncated == "{\"version\":\"v0\",\"type"

\* a JSON array that holds a set_targets command in the flat form
ArrayOfObject == "[" \o FlatLine("v0", "set_targets", TargetsMember("42.5", "1.5")) \o "]"

\* the lines that are not a JSON object
NotObjectLines == {"", Malformed, NotObject, Truncated, ArrayOfObject}

\* a set_targets command whose target_abv is a string
StringAbv == FlatLine("v0", "set_targets", "\"target_abv\":\"high\",\"target_flow\":1.5")

\* the lines of the tests set_targets_missing_target_abv and
\* set_targets_missing_target_flow
MissingTargetLines ==
    {NestedLine("v0", "set_targets", TargetsMember("", "1.5")),
     NestedLine("v0", "set_targets", TargetsMember("42.5", ""))}

\* the lines given to IPCProtocol::process_message
ProtoLines ==
    FlatLines \cup NestedSample \cup MissingFieldLines \cup NotObjectLines \cup {StringAbv}
        \cup MissingTargetLines \cup InvalidTypeLines \cup InvalidModeLines

\* the values ipc::get_timestamp_ms returns
Clock == {1000, 1100}

(***************************************************************************)
(* State                                                                   *)
(***************************************************************************)
VARIABLES
    impl,        \* which program runs: "main" (main.cpp) or "proto" (IPCProtocol)
    state,       \* main.cpp: the ControllerState of main()
    connected,   \* main.cpp: a client socket is open in handle_client
    state_,      \* IPCProtocol::state_
    line,        \* the line last handed to the dispatcher ("" before any)
    response,    \* what was sent or returned for it ("" when nothing was)
    prev,        \* the ControllerState the dispatcher found when it took line
    handler,     \* per client thread: where it stands inside a command handler
    reader,      \* the telemetry thread: where it stands inside a read of the state
    telemetry,   \* the state the last telemetry message reported, if any
    sent,        \* the (target_abv, target_flow) pairs of the commands begun
    boundaries,  \* what the state was at each instant no handler was inside a command
    issued,      \* how many commands the client threads have begun
    running_,       \* IpcServer::running_; in main.cpp, telemetry_running
    serverSocket_,  \* IpcServer::serverSocket_ is listening (FALSE: closed, invalid)
    clients_,       \* IpcServer::clients_, the vector of registered sockets
    clientsMutex_,  \* IpcServer::clientsMutex_: the thread inside send, or Unlocked
    serverThread_,  \* IpcServer::serverThread_: where serverLoop stands and its clientSocket
    client,         \* per socket: its handler thread, its peer and what went over it
    sender,         \* per thread: where it stands inside IpcServer::send and its locals
    stopper,        \* where the thread that calls IpcServer::stop stands
    budget,         \* how many more events from outside the run takes
    codec,          \* json_utils.hpp: an envelope on its way through encoder and decoder
    controller      \* controller.cpp: the Controller, its loop and its last frame

\* the variables of a run of the dispatcher on whole lines
dispatchVars == <<connected, line, response, prev>>

\* the variables of a run of the threads, statement by statement
threadVars == <<handler, reader, telemetry, sent, boundaries, issued>>

\* the variables of a run of the server: sockets, handlers, broadcasts
serverVars ==
    <<running_, serverSocket_, clients_, clientsMutex_, serverThread_, client,
      sender, stopper, budget>>

\* the variables of a run of the codec and of a run of the Controller
otherVars == <<codec, controller>>

vars == <<impl, state, state_, dispatchVars, threadVars, serverVars, otherVars>>

\* the doubles the lines carry, as std::stod reads them
AbvValues == { stod(a).val : a \in AbvTexts }

FlowValues == { stod(f).val : f \in FlowTexts }

\* the values a ControllerState of main.cpp can hold
MainStates ==
    { [running |-> TRUE, mode |-> m, target_abv |-> a, target_flow |-> f] :
        m \in {"IDLE", "ACTIVE"},
        a \in {MainInitState.target_abv} \cup AbvValues,
        f \in {MainInitState.target_flow} \cup FlowValues }

\* the values IPCProtocol::state_ can hold
ProtoStates ==
    { [mode |-> m, target_abv |-> a, target_flow |-> f] :
        m \in {"IDLE", "ACTIVE"},
        a \in {ProtoInitState.target_abv} \cup AbvValues,
        f \in {ProtoInitState.target_flow} \cup FlowValues }

\* parse_message, evaluated once for each line
MainDecoded == [l \in MainLines |-> parse_message(l)]

\* the lines parse_message decodes
MainDecodable == { l \in MainLines : MainDecoded[l].has }

\* process_command, evaluated once for each state, decoded line and time
ProcessCommand ==
    [st \in MainStates |-> [l \in MainDecodable |-> [now_ms \in Clock |->
        process_command(st, MainDecoded[l].val, now_ms)]]]

\* JsonObject::parse, evaluated once for each line
ProtoDecoded == [l \in ProtoLines |-> JsonParse(l)]

\* process_message, evaluated once for each state and line
ProcessMessage ==
    [st \in ProtoStates |-> [l \in ProtoLines |-> process_message(st, l)]]

\* the client threads: IpcServer::serverLoop detaches one handleClient thread
\* for each accepted client; main() serves one client at a time, in MainClient
Clients == {1, 2}

MainClient == 1

\* how many commands the client threads begin in a run of the threads
MaxCommands == 3

\* what a read of a std::string can return while another thread assigns it,
\* besides the old and the new value
TornString == "?"

\* a thread that is inside no handler and no read
Idle ==
    [pc |-> "idle", mode |-> "", target_abv |-> 0, target_flow |-> 0, raced |-> FALSE]

\* what a telemetry message reports of a ControllerState: main.cpp's
\* get_telemetry copies the mode, generate_telemetry the mode and both targets
Reported(st) ==
    IF impl = "main"
    THEN [mode |-> st.mode]
    ELSE [mode |-> st.mode, target_abv |-> st.target_abv, target_flow |-> st.target_flow]

\* the ControllerState of the implementation that runs
Current == IF impl = "main" THEN state ELSE state_

\* before any thread has run a statement
ThreadsInit ==
    /\ handler = [c \in Clients |-> Idle]
    /\ reader = Idle
    /\ telemetry = [has |-> FALSE, val |-> Reported(Current)]
    /\ sent = {}
    /\ boundaries = {Reported(Current)}
    /\ issued = 0

\* before any line has been dispatched
DispatchInit ==
    /\ connected = FALSE
    /\ line = ""
    /\ response = ""
    /\ prev = IF impl = "main" THEN MainInitState ELSE ProtoInitState

(***************************************************************************)
(* The servers, statement by statement: IpcServer (ipc_server.cpp) with    *)
(* IPCProtocol behind its message callback when impl = "proto", and main() *)
(* with handle_client (main.cpp) when impl = "main".  A socket stands for  *)
(* one connection; no descriptor is given out twice.                       *)
(***************************************************************************)

\* clientsMutex_ when no thread holds it
Unlocked == -1

\* the thread that calls IpcServer::send from outside the client handlers; in
\* main.cpp, the telemetry thread of handle_client
ControlThread == 0

\* the threads that call IpcServer::send
SendThreads == {ControlThread} \cup Clients

\* how many things happen to the server from outside in a run: a chunk
\* arrives, a peer closes or resets, the control thread broadcasts, stop is
\* called
MaxEvents == 2

\* a socket accept has not returned yet
NoClient ==
    [pc |-> "none", sock |-> "none", peer |-> "up", lineBuffer |-> "",
     received |-> "", appended |-> "", taken |-> <<>>, wire |-> <<>>]

\* a thread outside IpcServer::send
NotSending ==
    [pc |-> "idle", msg |-> "", i |-> 0, deadClients |-> <<>>, live |-> <<>>,
     tried |-> <<>>]

\* after the constructor of IpcServer; in main.cpp, when main() has bound
\* and listens
ServerInit ==
    /\ running_ = FALSE
    /\ serverSocket_ = (impl = "main")
    /\ clients_ = <<>>
    /\ clientsMutex_ = Unlocked
    /\ serverThread_ = [pc |-> IF impl = "main" THEN "accept" ELSE "new", clientSocket |-> 0]
    /\ client = [c \in Clients |-> NoClient]
    /\ sender = [t \in SendThreads |-> NotSending]
    /\ stopper = "idle"
    /\ budget = MaxEvents

\* no envelope is on its way through the codec
NotEncoding ==
    [pc |-> "idle", type |-> "", payload_json |-> "", line |-> "", decoded |-> None]

\* no Controller has been constructed
NoController ==
    [pc |-> "none"]

Init ==
    /\ impl \in {"main", "proto"}
    /\ state = MainInitState
    /\ state_ = ProtoInitState
    /\ DispatchInit
    /\ ThreadsInit
    /\ ServerInit
    /\ codec = NotEncoding
    /\ controller = NoController

\* main.cpp, main(): accept returns a client and handle_client starts
MainAccept ==
    /\ impl = "main"
    /\ state.running
    /\ ~connected
    /\ connected' = TRUE
    /\ UNCHANGED <<impl, otherVars, state, state_, line, response, prev, threadVars,
                   serverVars>>

\* main.cpp, handle_client: one pass of the loop over complete lines.  A line
\* parse_message decodes goes to process_command; any other closes the socket
\* and ends handle_client with nothing sent.
MainDispatch(l, now_ms) ==
    /\ impl = "main"
    /\ connected
    /\ line' = l
    /\ prev' = state
    /\ IF MainDecoded[l].has
       THEN /\ state' = ProcessCommand[state][l][now_ms].state
            /\ response' = ProcessCommand[state][l][now_ms].sent
            /\ connected' = TRUE
       ELSE /\ state' = state
            /\ response' = ""
            /\ connected' = FALSE
    /\ UNCHANGED <<impl, otherVars, state_, threadVars, serverVars>>

\* the bytes a read behind the terminator of a std::string can return
PastEndBytes == {"\"", "0", "t", "?"}

\* IPCProtocol::process_message, called with one line JsonObject::parse reads
\* behind its end: whatever byte the read returns, the response is that of
\* the catch
ProtoProcessPastEnd(l, byte) ==
    /\ impl = "proto"
    /\ ProtoDecoded[l].kind = "ub"
    /\ byte \in PastEndBytes
    /\ line' = l
    /\ prev' = state_
    /\ state_' = ProcessMessage[state_][l].state
    /\ response' = ProcessMessage[state_][l].response
    /\ UNCHANGED <<impl, otherVars, state, connected, threadVars, serverVars>>

\* IPCProtocol::process_message, called with one line that JsonObject::parse
\* reads within its bounds
ProtoProcess(l) ==
    /\ impl = "proto"
    /\ ProtoDecoded[l].kind # "ub"
    /\ line' = l
    /\ prev' = state_
    /\ state_' = ProcessMessage[state_][l].state
    /\ response' = ProcessMessage[state_][l].response
    /\ UNCHANGED <<impl, otherVars, state, connected, threadVars, serverVars>>

Next ==
    \/ MainAccept
    \/ \E l \in MainLines, now_ms \in Clock : MainDispatch(l, now_ms)
    \/ \E l \in ProtoLines : ProtoProcess(l)
    \/ \E l \in ProtoLines : \E byte \in PastEndBytes : ProtoProcessPastEnd(l, byte)

Spec == Init /\ [][Next]_vars

(***************************************************************************)
(* The threads, statement by statement.  No mutex guards a ControllerState *)
(* in either program: ipc_server.cpp locks clientsMutex_ around clients_   *)
(* only, and main.cpp has no mutex at all.                                 *)
(***************************************************************************)

\* every client thread is outside the handlers
Quiescent(h) == \A c \in Clients : h[c].pc = "idle"

\* the instants between two commands, with the state st reached now
Boundaries(h, st) ==
    IF Quiescent(h) THEN boundaries \cup {Reported(st)} ELSE boundaries

\* IpcServer::handleClient of client c calls the message callback
\* (ipc_server.cpp:219-221) with a set_targets line: handle_set_targets has
\* read both numbers and they have passed its checks (lines 89-108)
ProtoBeginSetTargets(c, abv, flow) ==
    /\ impl = "proto"
    /\ handler[c].pc = "idle"
    /\ issued < MaxCommands
    /\ ~AbvOutOfRange(abv)
    /\ flow >= 0
    /\ handler' = [handler EXCEPT ![c] =
                      [Idle EXCEPT !.pc = "validated",
                                   !.target_abv = abv, !.target_flow = flow]]
    /\ sent' = sent \cup {<<abv, flow>>}
    /\ issued' = issued + 1
    /\ UNCHANGED <<impl, otherVars, state, state_, dispatchVars, serverVars, reader, telemetry, boundaries>>

\* "state_.target_abv = abv;" (ipc_protocol.cpp:110)
ProtoWriteAbv(c) ==
    /\ impl = "proto"
    /\ handler[c].pc = "validated"
    /\ state_' = [state_ EXCEPT !.target_abv = handler[c].target_abv]
    /\ handler' = [handler EXCEPT ![c].pc = "abv_written"]
    /\ UNCHANGED <<impl, otherVars, state, dispatchVars, serverVars, reader, telemetry, sent, boundaries, issued>>

\* "state_.target_flow = flow;" (ipc_protocol.cpp:111) and the return
ProtoWriteFlow(c) ==
    /\ impl = "proto"
    /\ handler[c].pc = "abv_written"
    /\ state_' = [state_ EXCEPT !.target_flow = handler[c].target_flow]
    /\ handler' = [handler EXCEPT ![c] = Idle]
    /\ boundaries' = Boundaries(handler', state_')
    /\ UNCHANGED <<impl, otherVars, state, dispatchVars, serverVars, reader, telemetry, sent, issued>>

\* generate_telemetry reads state_.mode and state_.target_abv
\* (ipc_protocol.cpp:124-125)
ProtoReadModeAbv ==
    /\ impl = "proto"
    /\ reader.pc = "idle"
    /\ reader' = [Idle EXCEPT !.pc = "abv_read", !.mode = state_.mode,
                              !.target_abv = state_.target_abv]
    /\ UNCHANGED <<impl, otherVars, state, state_, dispatchVars, serverVars, handler, telemetry, sent,
                   boundaries, issued>>

\* generate_telemetry reads state_.target_flow and returns the message
ProtoReadFlow ==
    /\ impl = "proto"
    /\ reader.pc = "abv_read"
    /\ telemetry' = [has |-> TRUE,
                     val |-> [mode |-> reader.mode, target_abv |-> reader.target_abv,
                              target_flow |-> state_.target_flow]]
    /\ reader' = Idle
    /\ UNCHANGED <<impl, otherVars, state, state_, dispatchVars, serverVars, handler, sent, boundaries, issued>>

\* process_command begins "state.mode = payload->mode;" (main.cpp:112) in the
\* thread of handle_client; a telemetry read under way is raced
MainBeginSetMode(m) ==
    /\ impl = "main"
    /\ handler[MainClient].pc = "idle"
    /\ issued < MaxCommands
    /\ handler' = [handler EXCEPT ![MainClient] =
                      [Idle EXCEPT !.pc = "writing_mode", !.mode = m]]
    /\ reader' = IF reader.pc = "reading_mode"
                 THEN [reader EXCEPT !.raced = TRUE] ELSE reader
    /\ issued' = issued + 1
    /\ UNCHANGED <<impl, otherVars, state, state_, dispatchVars, serverVars, telemetry, sent, boundaries>>

\* the assignment of main.cpp:112 is complete
MainEndSetMode ==
    /\ impl = "main"
    /\ handler[MainClient].pc = "writing_mode"
    /\ state' = [state EXCEPT !.mode = handler[MainClient].mode]
    /\ handler' = [handler EXCEPT ![MainClient] = Idle]
    /\ boundaries' = Boundaries(handler', state')
    /\ UNCHANGED <<impl, otherVars, state_, dispatchVars, serverVars, reader, telemetry, sent, issued>>

\* the telemetry thread of handle_client (main.cpp:162-173) calls
\* state.get_telemetry(), which begins "telemetry.mode = mode;" (main.cpp:44)
MainBeginGetTelemetry ==
    /\ impl = "main"
    /\ reader.pc = "idle"
    /\ reader' = [Idle EXCEPT !.pc = "reading_mode",
                              !.raced = (handler[MainClient].pc = "writing_mode")]
    /\ UNCHANGED <<impl, otherVars, state, state_, dispatchVars, serverVars, handler, telemetry, sent,
                   boundaries, issued>>

\* the copy of main.cpp:44 is complete and the message is built.  A copy that
\* an assignment overlapped is a data race: it may hold either mode or neither.
MainEndGetTelemetry ==
    /\ impl = "main"
    /\ reader.pc = "reading_mode"
    /\ \E m \in (IF reader.raced THEN Modes \cup {TornString} ELSE {state.mode}) :
          telemetry' = [has |-> TRUE, val |-> [mode |-> m]]
    /\ reader' = Idle
    /\ UNCHANGED <<impl, otherVars, state, state_, dispatchVars, serverVars, handler, sent, boundaries, issued>>

NextThreads ==
    \/ \E c \in Clients, abv \in AbvValues, flow \in FlowValues :
          ProtoBeginSetTargets(c, abv, flow)
    \/ \E c \in Clients : ProtoWriteAbv(c)
    \/ \E c \in Clients : ProtoWriteFlow(c)
    \/ ProtoReadModeAbv
    \/ ProtoReadFlow
    \/ \E m \in Modes : MainBeginSetMode(m)
    \/ MainEndSetMode
    \/ MainBeginGetTelemetry
    \/ MainEndGetTelemetry

SpecThreads == Init /\ [][NextThreads]_vars


(***************************************************************************)
(* What a client reads in a response, as is_ok_ack and is_error_ack of     *)
(* controller/tests/test_ipc_protocol.cpp read it                          *)
(***************************************************************************)

\* the text of a field of the response, "" when the response has none
ResponseField(r, field) == extract_json_field(r, field).val

is_ok_ack(r) ==
    ResponseField(r, "type") = "ack" /\ ResponseField(r, "status") = "ok"

is_error_ack(r) ==
    ResponseField(r, "type") = "ack" /\ ResponseField(r, "status") = "error"

\* the message an ack carries
AckMessage(r) == ResponseField(r, "message")

\* the command an ack names
AckCommand(r) == ResponseField(r, "command")

\* the number a text of AbvTexts or FlowTexts writes, in tenths
Tenths(text) ==
    CASE text = "-10.0" -> -100
      [] text = "-1.0"  -> -10
      [] text = "0.0"   -> 0
      [] text = "1.5"   -> 15
      [] text = "42.5"  -> 425
      [] text = "100.0" -> 1000
      [] text = "150.0" -> 1500

\* the set_targets envelope that supplies the texts a and f ("" for a field
\* that is omitted), as ipc_protocol.hpp and ipc_protocol.h:35 lay it out
SetTargetsEnvelope(a, f) == NestedLine("v0", "set_targets", TargetsMember(a, f))

\* the set_mode envelope that asks for the mode m
SetModeEnvelope(m) == NestedLine("v0", "set_mode", ModeMember(m))

\* target_abv and target_flow are what they were before the line
TargetsUnchanged ==
    Current.target_abv = prev.target_abv /\ Current.target_flow = prev.target_flow


(***************************************************************************)
(* The claims about the dispatcher, checked under Spec                     *)
(***************************************************************************)

\* C1: every set_targets command whose target_abv is below 0 or above 100 is
\* answered by an error ack whose message contains "out of range", and both
\* targets keep the values they had before the command.
C1_AbvOutOfRangeRejected ==
    \A a \in AbvTexts, f \in FlowTexts \cup {""} :
        (line = SetTargetsEnvelope(a, f) /\ (Tenths(a) < 0 \/ Tenths(a) > 1000))
        => /\ is_error_ack(response)
           /\ Contains(AckMessage(response), "out of range")
           /\ TargetsUnchanged

\* C2: every set_targets command that supplies a negative target_flow, with a
\* target_abv that is valid or omitted, is answered by an error ack whose
\* message contains "cannot be negative", and no field is applied.
C2_NegativeFlowRejected ==
    \A a \in AbvTexts \cup {""}, f \in FlowTexts :
        (/\ line = SetTargetsEnvelope(a, f)
         /\ Tenths(f) < 0
         /\ (a = "" \/ (Tenths(a) >= 0 /\ Tenths(a) <= 1000)))
        => /\ is_error_ack(response)
           /\ Contains(AckMessage(response), "cannot be negative")
           /\ TargetsUnchanged

C6_SetModeValidated ==
    /\ \A m \in Modes :
          line = SetModeEnvelope(m) => is_ok_ack(response) /\ Current.mode = m
    /\ \A m \in OtherModes :
          line = SetModeEnvelope(m)
          => /\ is_error_ack(response)
             /\ Contains(AckMessage(response), "Invalid mode")
             /\ Current.mode = prev.mode

\* the set_mode lines, in either form, under the supported version
SetModeLines ==
    { NestedLine("v0", "set_mode", m) : m \in ModeMembers }
        \cup { FlatLine("v0", "set_mode", m) : m \in ModeMembers }

\* C7: in every reachable state the mode is IDLE or ACTIVE, and a line that
\* changes the mode is a set_mode command that is acked ok: get_telemetry,
\* set_targets and every rejected envelope leave the mode unchanged.
C7_ModeChangesOnlyBySetMode ==
    /\ Current.mode \in Modes
    /\ Current.mode # prev.mode => line \in SetModeLines /\ is_ok_ack(response)

\* C7's case: a line has changed the mode
C7_Witness ==
    /\ line \in SetModeLines
    /\ prev.mode = "IDLE"
    /\ Current.mode = "ACTIVE"

\* C8: every envelope whose version is not "v0" is answered by an error ack
\* whose message contains "version", whatever its type and payload, and the
\* ControllerState is unchanged.
C8_OtherVersionRejected ==
    \A c \in CommandsSample :
        line = NestedLine("v1", c[1], c[2])
        => /\ is_error_ack(response)
           /\ Contains(AckMessage(response), "version")
           /\ Current = prev

\* C9: every v0 envelope whose type is not get_telemetry, set_mode or
\* set_targets is answered by an error ack that says the command is unknown,
\* and the ControllerState is unchanged.
C9_UnknownTypeRejected ==
    line = NestedLine("v0", "unknown_command", "")
    => /\ is_error_ack(response)
       /\ Contains(AckMessage(response), "Unknown")
       /\ Current = prev

\* C10: a v0 get_telemetry envelope is answered by one ack whose command is
\* get_telemetry and whose status is ok, whatever its payload, and the
\* ControllerState is unchanged.
C10_GetTelemetryAcked ==
    \A m \in TelemetryMembers :
        line = NestedLine("v0", "get_telemetry", m)
        => /\ is_ok_ack(response)
           /\ AckCommand(response) = "get_telemetry"
           /\ Current = prev

(***************************************************************************)
(* The claims about the threads, checked under SpecThreads                 *)
(***************************************************************************)

\* C4: when two connections issue set_targets commands concurrently, whenever
\* no handler is inside a command the pair (target_abv, target_flow) is the
\* initial pair or the pair of one of the commands: never the target_abv of
\* one command with the target_flow of another.
C4_NoTornTargets ==
    (impl = "proto" /\ Quiescent(handler))
    => <<state_.target_abv, state_.target_flow>>
          \in {<<ProtoInitState.target_abv, ProtoInitState.target_flow>>} \cup sent

\* C5: a telemetry read of the ControllerState never overlaps a command
\* handler's write to it, and every telemetry message reports the state as
\* it stood at one instant between two commands.
C5_TelemetryReadsBetweenCommands ==
    /\ ~(reader.pc # "idle"
         /\ \E c \in Clients : handler[c].pc \in {"abv_written", "writing_mode"})
    /\ telemetry.has => telemetry.val \in boundaries



\* C11: a JSON-object line that lacks version is answered by an error ack
\* whose message contains "version", one that lacks type by an error ack whose
\* message contains "type", one that lacks payload by an error ack whose
\* message contains "payload", and the ControllerState is unchanged each time.
C11_MissingFieldRejected ==
    /\ line = LacksVersion
        => /\ is_error_ack(response)
           /\ Contains(AckMessage(response), "version")
           /\ Current = prev
    /\ line = LacksType
        => /\ is_error_ack(response)
           /\ Contains(AckMessage(response), "type")
           /\ Current = prev
    /\ line = LacksPayload
        => /\ is_error_ack(response)
           /\ Contains(AckMessage(response), "payload")
           /\ Current = prev


(***************************************************************************)
(* What the clients of the servers send: set_mode commands in the form the *)
(* dispatcher behind the server reads, and a line neither decoder accepts. *)
(* recv returns the bytes in chunks that need not end where a line ends.   *)
(***************************************************************************)

Impls == {"main", "proto"}

\* the set_mode command for the mode m, as the dispatcher of i reads it
CommandLine(i, m) ==
    IF i = "main"
    THEN NestedLine("v0", "set_mode", ModeMember(m))
    ELSE FlatLine("v0", "set_mode", ModeMember(m))

\* a line json::parse_message and JsonObject::parse both reject
BadLine == LacksType

\* the byte 0, for which the strings of the model write "~"
NUL == "~"

\* what "buffer[n] = '\0'; lineBuffer += buffer" appends of the n bytes recv
\* put into buffer: operator+= takes a const char*, which ends at the first
\* byte 0
CString(buffer) ==
    LET pos == FindChar(buffer, NUL)
    IN  IF pos = NPOS THEN buffer ELSE Substr(buffer, 0, pos)

\* where the chunk that carries the start of a line ends
HeadLen == 9

\* the start of a command, when recv returns before the line is complete
LineHead(i) == Substr(CommandLine(i, "ACTIVE"), 0, HeadLen)

\* the rest of that command and its newline
LineTail(i) == SubstrFrom(CommandLine(i, "ACTIVE"), HeadLen) \o "\n"

\* what one recv returns when the buffer holds no partial line: a bad line
\* with a command behind it, an empty line with a command that ends in CR LF
\* behind it, the start of a command, or two lines of which the second
\* begins with a byte 0; main.cpp is also sent two commands in one chunk
Chunks ==
    [i \in Impls |->
        {BadLine \o "\n" \o CommandLine(i, "IDLE") \o "\n",
         "\n" \o CommandLine(i, "IDLE") \o "\r\n",
         LineHead(i),
         CommandLine(i, "IDLE") \o "\n" \o NUL \o CommandLine(i, "ACTIVE") \o "\n"}
        \cup (IF i = "main"
              THEN {CommandLine(i, "ACTIVE") \o "\n" \o CommandLine(i, "IDLE") \o "\n"}
              ELSE {})]

\* what lineBuffer or incomplete_message can hold
Buffers ==
    UNION { Chunks[i] \cup {"", LineHead(i) \o LineTail(i),
                            CommandLine(i, "IDLE") \o "\n",
                            CommandLine(i, "IDLE") \o "\r\n"} :
            i \in Impls }

\* lineBuffer.find('\n'), evaluated once for each buffer
NewlineAt == [b \in Buffers |-> Find(b, "\n", 0)]

\* a variant of the extraction that takes the second complete line of the
\* buffer before the first
FirstLine_TakesSecond(buf) ==
    LET first  == Find(buf, "\n", 0)
        second == IF first = NPOS THEN NPOS ELSE Find(buf, "\n", first + 1)
    IN  IF first = NPOS
        THEN [found |-> FALSE, message |-> "", rest |-> buf]
        ELSE IF first = 0 \/ second = NPOS
        THEN [found |-> TRUE, message |-> Substr(buf, 0, first),
              rest |-> SubstrFrom(buf, first + 1)]
        ELSE [found |-> TRUE, message |-> Substr(buf, first + 1, second - first - 1),
              rest |-> Substr(buf, 0, first + 1) \o SubstrFrom(buf, second + 1)]

\* the loop over complete lines: whether the buffer holds a newline, the
\* bytes before the first one, and the buffer after they and the newline
\* are taken off
FirstLine(buf) ==
    LET pos == NewlineAt[buf]
    IN  IF pos = NPOS
        THEN [found |-> FALSE, message |-> "", rest |-> buf]
        ELSE [found |-> TRUE, message |-> Substr(buf, 0, pos),
              rest |-> SubstrFrom(buf, pos + 1)]

\* the chunks recv can return when the buffer holds b
NextChunks(i, b) == IF b = LineHead(i) THEN {LineTail(i)} ELSE Chunks[i]

\* the messages the control thread broadcasts, with and without the newline
BroadcastMessages == {"{\"type\":\"telemetry\"}", "{\"type\":\"telemetry\"}\n"}

\* the message as IpcServer::send writes it: a newline is added if missing
WithNewline(message) ==
    IF message = "" \/ CharAt(message, Len(message) - 1) # "\n"
    THEN message \o "\n"
    ELSE message

\* a variant of the erasure that leaves the vector as it is
Erase_KeepsAll(v, sock) == v

\* std::remove and erase: the vector without the socket
Erase(v, sock) == SelectSeq(v, LAMBDA x : x # sock)

\* the socket c after a write of msg by the thread t, answering the re-th
\* line taken from the socket of t (0: answering none)
Written(cl, c, msg, t, re) ==
    [cl EXCEPT ![c].wire = Append(@, [msg |-> msg, by |-> t, re |-> re])]

\* what ::send can return on the socket c: success while the descriptor is
\* open, SOCKET_ERROR_VALUE once it is closed or the peer is gone
SendResults(c) ==
    (IF client[c].sock = "open" THEN {TRUE} ELSE {})
        \cup (IF client[c].sock # "open" \/ client[c].peer # "up" THEN {FALSE} ELSE {})


\* what no step of a server changes
restVars == <<impl, otherVars, dispatchVars, threadVars>>

(***************************************************************************)
(* IpcServer.  lock_guard scopes that hold one statement (push_back,       *)
(* erase, cleanup's loop) are one step taken while clientsMutex_ is free;  *)
(* IpcServer::send holds clientsMutex_ from its first statement to its     *)
(* return, over one step per ::send.                                       *)
(***************************************************************************)

\* std::lock_guard on clientsMutex_ can be taken
CanLock_Always == TRUE

CanLock == clientsMutex_ = Unlocked

\* IpcServer::start with a callback: the socket listens, running_ is set and
\* serverThread_ starts serverLoop
Start ==
    /\ impl = "proto"
    /\ serverThread_.pc = "new"
    /\ ~running_
    /\ serverSocket_' = TRUE
    /\ running_' = TRUE
    /\ serverThread_' = [serverThread_ EXCEPT !.pc = "accept"]
    /\ UNCHANGED <<restVars, state, state_, clients_, clientsMutex_, client, sender,
                   stopper, budget>>

\* serverLoop: accept returns the socket c of a new connection, the lowest
\* descriptor not yet given out
Accept(c) ==
    /\ impl = "proto"
    /\ serverThread_.pc = "accept"
    /\ running_
    /\ serverSocket_
    /\ client[c].sock = "none"
    /\ \A d \in Clients : d < c => client[d].sock # "none"
    /\ client' = [client EXCEPT ![c].sock = "open"]
    /\ serverThread_' = [pc |-> "register", clientSocket |-> c]
    /\ UNCHANGED <<restVars, state, state_, running_, serverSocket_, clients_,
                   clientsMutex_, sender, stopper, budget>>

\* serverLoop: running_ is false at the top of the loop, or accept fails on
\* the closed listening socket, and the loop ends
AcceptEnd ==
    /\ impl = "proto"
    /\ serverThread_.pc = "accept"
    /\ ~running_ \/ ~serverSocket_
    /\ serverThread_' = [serverThread_ EXCEPT !.pc = "ended"]
    /\ UNCHANGED <<restVars, state, state_, running_, serverSocket_, clients_,
                   clientsMutex_, client, sender, stopper, budget>>

\* serverLoop: clients_.push_back(clientSocket) under clientsMutex_
Register ==
    /\ serverThread_.pc = "register"
    /\ CanLock
    /\ clients_' = Append(clients_, serverThread_.clientSocket)
    /\ serverThread_' = [serverThread_ EXCEPT !.pc = "spawn"]
    /\ UNCHANGED <<restVars, state, state_, running_, serverSocket_, clientsMutex_,
                   client, sender, stopper, budget>>

\* serverLoop: the thread of handleClient(clientSocket) is created and
\* detached
Spawn ==
    /\ serverThread_.pc = "spawn"
    /\ client' = [client EXCEPT ![serverThread_.clientSocket].pc = "recv"]
    /\ serverThread_' = [serverThread_ EXCEPT !.pc = "accept"]
    /\ UNCHANGED <<restVars, state, state_, running_, serverSocket_, clients_,
                   clientsMutex_, sender, stopper, budget>>

\* handleClient: running_ is true and recv returns a chunk, which is appended
\* to lineBuffer as a C string
Recv(c, chunk) ==
    /\ impl = "proto"
    /\ client[c].pc = "recv"
    /\ running_
    /\ client[c].sock = "open"
    /\ client[c].peer = "up"
    /\ budget > 0
    /\ chunk \in NextChunks(impl, client[c].lineBuffer)
    /\ client' = [client EXCEPT ![c].lineBuffer = @ \o CString(chunk),
                                ![c].received = @ \o chunk,
                                ![c].appended = @ \o CString(chunk),
                                ![c].pc = "lines"]
    /\ budget' = budget - 1
    /\ UNCHANGED <<restVars, state, state_, running_, serverSocket_, clients_,
                   clientsMutex_, serverThread_, sender, stopper>>

\* handleClient: running_ is false at the top of the loop, or recv returns 0
\* (the peer closed) or an error (the peer reset, the descriptor is closed),
\* and the loop ends
RecvEnd(c) ==
    /\ impl = "proto"
    /\ client[c].pc = "recv"
    /\ ~running_ \/ client[c].peer # "up" \/ client[c].sock # "open"
    /\ client' = [client EXCEPT ![c].pc = "erase"]
    /\ UNCHANGED <<restVars, state, state_, running_, serverSocket_, clients_,
                   clientsMutex_, serverThread_, sender, stopper, budget>>

\* the message callback: the line goes to IPCProtocol::process_message and
\* the response to IpcServer::send
Callback(c, message) ==
    /\ state_' = ProcessMessage[state_][message].state
    /\ sender' = [sender EXCEPT ![c] = [NotSending EXCEPT
                      !.pc = "call", !.msg = ProcessMessage[state_][message].response]]

\* handleClient: one pass of the loop over the complete lines of lineBuffer.
\* An empty line, or one that is only a CR, is dropped; any other goes to
\* the callback without its CR.
NextLine(c) ==
    /\ impl = "proto"
    /\ client[c].pc = "lines"
    /\ LET line1 == FirstLine(client[c].lineBuffer)
           raw == line1.message
           message == IF raw # "" /\ CharAt(raw, Len(raw) - 1) = "\r"
                      THEN Substr(raw, 0, Len(raw) - 1)
                      ELSE raw
       IN  IF ~line1.found
           THEN /\ client' = [client EXCEPT ![c].pc = "recv"]
                /\ UNCHANGED <<state_, sender>>
           ELSE IF message = ""
           THEN /\ client' = [client EXCEPT ![c].lineBuffer = line1.rest]
                /\ UNCHANGED <<state_, sender>>
           ELSE /\ client' = [client EXCEPT ![c].lineBuffer = line1.rest,
                                           ![c].taken = Append(@, message),
                                           ![c].pc = "answer"]
                /\ Callback(c, message)
    /\ UNCHANGED <<restVars, state, running_, serverSocket_, clients_, clientsMutex_,
                   serverThread_, stopper, budget>>

\* handleClient: the socket is erased from clients_ under clientsMutex_
Deregister(c) ==
    /\ client[c].pc = "erase"
    /\ CanLock
    /\ clients_' = Erase(clients_, c)
    /\ client' = [client EXCEPT ![c].pc = "close"]
    /\ UNCHANGED <<restVars, state, state_, running_, serverSocket_, clientsMutex_,
                   serverThread_, sender, stopper, budget>>

\* handleClient: closesocket(clientSocket), and the thread ends
Close(c) ==
    /\ client[c].pc = "close"
    /\ client' = [client EXCEPT ![c].sock = "closed", ![c].pc = "finished"]
    /\ UNCHANGED <<restVars, state, state_, running_, serverSocket_, clients_,
                   clientsMutex_, serverThread_, sender, stopper, budget>>

\* the control thread calls IpcServer::send(message)
Publish(message) ==
    /\ impl = "proto"
    /\ sender[ControlThread].pc \in {"idle", "returned"}
    /\ serverThread_.pc # "new"
    /\ budget > 0
    /\ sender' = [sender EXCEPT ![ControlThread] =
                      [NotSending EXCEPT !.pc = "call", !.msg = message]]
    /\ budget' = budget - 1
    /\ UNCHANGED <<restVars, state, state_, running_, serverSocket_, clients_,
                   clientsMutex_, serverThread_, client, stopper>>

\* IpcServer::send: the lock is taken, the newline added, deadClients empty
SendLock(t) ==
    /\ sender[t].pc = "call"
    /\ CanLock
    /\ clientsMutex_' = t
    /\ sender' = [sender EXCEPT ![t] =
                      [pc |-> "loop", msg |-> WithNewline(sender[t].msg), i |-> 1,
                       deadClients |-> <<>>, live |-> clients_, tried |-> <<>>]]
    /\ UNCHANGED <<restVars, state, state_, running_, serverSocket_, clients_,
                   serverThread_, client, stopper, budget>>


\* the sockets of a vector
Range(v) == { v[k] : k \in 1..Len(v) }

\* a variant of the pass that leaves the loop at the first failed ::send
Attempt_StopsAtFailure(s, sock, ok) ==
    [s EXCEPT !.i = IF ok THEN @ + 1 ELSE Len(s.live) + 1,
              !.tried = Append(@, sock),
              !.deadClients = IF ok THEN @ ELSE Append(@, sock)]

\* IpcServer::send, one pass of the loop over clients_: the locals after
\* ::send on sock returned; a failed socket is pushed to deadClients
Attempt(s, sock, ok) ==
    [s EXCEPT !.i = @ + 1,
              !.tried = Append(@, sock),
              !.deadClients = IF ok THEN @ ELSE Append(@, sock)]

\* IpcServer::send: ::send of the message on the next socket of clients_
SendWrite(t, ok) ==
    /\ sender[t].pc = "loop"
    /\ sender[t].i <= Len(clients_)
    /\ LET sock == clients_[sender[t].i]
           re   == IF t = ControlThread THEN 0 ELSE Len(client[t].taken)
       IN  /\ ok \in SendResults(sock)
           /\ client' = IF ok THEN Written(client, sock, sender[t].msg, t, re) ELSE client
           /\ sender' = [sender EXCEPT ![t] = Attempt(@, sock, ok)]
    /\ UNCHANGED <<restVars, state, state_, running_, serverSocket_, clients_,
                   clientsMutex_, serverThread_, stopper, budget>>

\* a variant of the removal that erases nothing
RemoveDead_KeepsAll(v, dead) == v

\* IpcServer::send, the loop over deadClients: clients_ without them
RemoveDead(v, dead) == SelectSeq(v, LAMBDA x : x \notin Range(dead))

\* IpcServer::send: after the pass every dead socket is closed and erased,
\* the lock is released and send returns; a handler that called send from
\* the callback goes on with the next line
SendRemoveDead(t) ==
    /\ sender[t].pc = "loop"
    /\ sender[t].i > Len(clients_)
    /\ clients_' = RemoveDead(clients_, sender[t].deadClients)
    /\ client' = [c \in Clients |->
                    [client[c] EXCEPT
                        !.sock = IF c \in Range(sender[t].deadClients) THEN "closed" ELSE @,
                        !.pc = IF c = t THEN "lines" ELSE @]]
    /\ clientsMutex_' = Unlocked
    /\ sender' = [sender EXCEPT ![t].pc = "returned"]
    /\ UNCHANGED <<restVars, state, state_, running_, serverSocket_, serverThread_,
                   stopper, budget>>

\* IpcServer::stop on a running server: running_ is cleared and the listening
\* socket closed
StopBegin ==
    /\ impl = "proto"
    /\ stopper = "idle"
    /\ running_
    /\ budget > 0
    /\ running_' = FALSE
    /\ serverSocket_' = FALSE
    /\ stopper' = "join"
    /\ budget' = budget - 1
    /\ UNCHANGED <<restVars, state, state_, clients_, clientsMutex_, serverThread_,
                   client, sender>>

\* IpcServer::stop: serverThread_.join() returns once serverLoop has ended
StopJoin ==
    /\ stopper = "join"
    /\ serverThread_.pc = "ended"
    /\ stopper' = "cleanup"
    /\ UNCHANGED <<restVars, state, state_, running_, serverSocket_, clients_,
                   clientsMutex_, serverThread_, client, sender, budget>>

\* IpcServer::stop on a server that is not running, before start or after a
\* stop that has returned: the call returns at its first test
StopNotRunning ==
    /\ impl = "proto"
    /\ stopper \in {"idle", "returned"}
    /\ ~running_
    /\ budget > 0
    /\ budget' = budget - 1
    /\ UNCHANGED <<restVars, state, state_, running_, serverSocket_, clients_,
                   clientsMutex_, serverThread_, client, sender, stopper>>

\* a variant of cleanup that closes the sockets and leaves them in clients_
Cleanup_KeepsRegistered ==
    /\ stopper = "cleanup"
    /\ CanLock
    /\ client' = [c \in Clients |->
                    [client[c] EXCEPT !.sock = IF c \in Range(clients_) THEN "closed" ELSE @]]
    /\ clients_' = clients_
    /\ stopper' = "returned"
    /\ UNCHANGED <<restVars, state, state_, running_, serverSocket_, clientsMutex_,
                   serverThread_, sender, budget>>

\* IpcServer::cleanup under clientsMutex_: every registered socket is closed
\* and clients_ cleared; then stop returns
Cleanup ==
    /\ stopper = "cleanup"
    /\ CanLock
    /\ client' = [c \in Clients |->
                    [client[c] EXCEPT !.sock = IF c \in Range(clients_) THEN "closed" ELSE @]]
    /\ clients_' = <<>>
    /\ stopper' = "returned"
    /\ UNCHANGED <<restVars, state, state_, running_, serverSocket_, clientsMutex_,
                   serverThread_, sender, budget>>

\* the peer of the socket c closes its end (recv will return 0) or resets the
\* connection (recv will return an error)
PeerClose(c, how) ==
    /\ client[c].sock = "open"
    /\ client[c].peer = "up"
    /\ budget > 0
    /\ client' = [client EXCEPT ![c].peer = how]
    /\ budget' = budget - 1
    /\ UNCHANGED <<restVars, state, state_, running_, serverSocket_, clients_,
                   clientsMutex_, serverThread_, sender, stopper>>

NextIpcServer ==
    \/ Start
    \/ \E c \in Clients : Accept(c)
    \/ AcceptEnd
    \/ Register
    \/ Spawn
    \/ \E c \in Clients : \E chunk \in Chunks[impl] \cup {LineTail(impl)} : Recv(c, chunk)
    \/ \E c \in Clients : RecvEnd(c)
    \/ \E c \in Clients : NextLine(c)
    \/ \E c \in Clients : Deregister(c)
    \/ \E c \in Clients : Close(c)
    \/ \E message \in BroadcastMessages : Publish(message)
    \/ \E t \in SendThreads : SendLock(t)
    \/ \E t \in SendThreads : \E ok \in BOOLEAN : SendWrite(t, ok)
    \/ \E t \in SendThreads : SendRemoveDead(t)
    \/ StopBegin
    \/ StopJoin
    \/ Cleanup
    \/ StopNotRunning
    \/ \E c \in Clients : \E how \in {"eof", "reset"} : PeerClose(c, how)


(***************************************************************************)
(* main.cpp: main() serves one client at a time with handle_client, which  *)
(* starts a telemetry thread for the socket and reads commands from it.    *)
(* running_ stands for telemetry_running, the control thread for the       *)
(* telemetry thread.                                                       *)
(***************************************************************************)

\* create_telemetry_message of get_telemetry, evaluated once for each state
\* and time
TelemetryMessage ==
    [st \in MainStates |-> [now_ms \in Clock |->
        create_telemetry_message(get_telemetry(st, now_ms))]]

\* main(): accept returns the socket c and handle_client starts its
\* telemetry thread
HandleClient(c) ==
    /\ impl = "main"
    /\ serverThread_.pc = "accept"
    /\ state.running
    /\ client[c].sock = "none"
    /\ \A d \in Clients : d < c => client[d].sock # "none"
    /\ client' = [client EXCEPT ![c].sock = "open", ![c].pc = "recv"]
    /\ serverThread_' = [pc |-> "serving", clientSocket |-> c]
    /\ running_' = TRUE
    /\ sender' = [sender EXCEPT ![ControlThread].pc = "check"]
    /\ UNCHANGED <<restVars, state, state_, serverSocket_, clients_, clientsMutex_,
                   stopper, budget>>

\* the telemetry thread: the condition of its loop
TelemetryCheck ==
    /\ impl = "main"
    /\ sender[ControlThread].pc = "check"
    /\ IF running_ /\ state.running
       THEN /\ budget > 0
            /\ budget' = budget - 1
            /\ sender' = [sender EXCEPT ![ControlThread].pc = "send"]
       ELSE /\ budget' = budget
            /\ sender' = [sender EXCEPT ![ControlThread].pc = "done"]
    /\ UNCHANGED <<restVars, state, state_, running_, serverSocket_, clients_,
                   clientsMutex_, serverThread_, client, stopper>>

\* the telemetry thread: one telemetry message is sent on the socket; the
\* loop ends if send_message fails
TelemetrySend(now_ms, ok) ==
    /\ impl = "main"
    /\ sender[ControlThread].pc = "send"
    /\ LET c == serverThread_.clientSocket
       IN  /\ ok \in SendResults(c)
           /\ client' = IF ok
                        THEN Written(client, c, TelemetryMessage[state][now_ms],
                                     ControlThread, 0)
                        ELSE client
    /\ sender' = [sender EXCEPT ![ControlThread].pc = IF ok THEN "check" ELSE "done"]
    /\ UNCHANGED <<restVars, state, state_, running_, serverSocket_, clients_,
                   clientsMutex_, serverThread_, stopper, budget>>

\* the telemetry thread: send, inside send_message, has put the first bytes
\* of the message into the socket and waits for room for the rest; the
\* socket is not locked while it waits
TelemetrySendBlocked(now_ms) ==
    /\ impl = "main"
    /\ sender[ControlThread].pc = "send"
    /\ LET c == serverThread_.clientSocket
           message == TelemetryMessage[state][now_ms]
       IN  /\ TRUE \in SendResults(c)
           /\ client' = Written(client, c, Substr(message, 0, HeadLen), ControlThread, 0)
           /\ sender' = [sender EXCEPT ![ControlThread].pc = "sending",
                                       ![ControlThread].msg = SubstrFrom(message, HeadLen)]
    /\ UNCHANGED <<restVars, state, state_, running_, serverSocket_, clients_,
                   clientsMutex_, serverThread_, stopper, budget>>

\* the telemetry thread: the send that waited puts the rest of the message into
\* the socket, or gives up and returns the number of bytes it had sent;
\* either way sent > 0 and send_message returns true
TelemetrySendRest(ok) ==
    /\ impl = "main"
    /\ sender[ControlThread].pc = "sending"
    /\ LET c == serverThread_.clientSocket
       IN  /\ ok \in SendResults(c)
           /\ client' = IF ok
                        THEN Written(client, c, sender[ControlThread].msg, ControlThread, 0)
                        ELSE client
    /\ sender' = [sender EXCEPT ![ControlThread].pc = "check", ![ControlThread].msg = ""]
    /\ UNCHANGED <<restVars, state, state_, running_, serverSocket_, clients_,
                   clientsMutex_, serverThread_, stopper, budget>>

\* handle_client: recv returns a chunk, which is appended to
\* incomplete_message as a C string
MainRecv(c, chunk) ==
    /\ impl = "main"
    /\ client[c].pc = "recv"
    /\ state.running
    /\ client[c].sock = "open"
    /\ client[c].peer = "up"
    /\ budget > 0
    /\ chunk \in NextChunks(impl, client[c].lineBuffer)
    /\ client' = [client EXCEPT ![c].lineBuffer = @ \o CString(chunk),
                                ![c].received = @ \o chunk,
                                ![c].appended = @ \o CString(chunk),
                                ![c].pc = "lines"]
    /\ budget' = budget - 1
    /\ UNCHANGED <<restVars, state, state_, running_, serverSocket_, clients_,
                   clientsMutex_, serverThread_, sender, stopper>>

\* handle_client: recv returns 0 or an error, the loop ends and
\* telemetry_running is cleared
MainRecvEnd(c) ==
    /\ impl = "main"
    /\ client[c].pc = "recv"
    /\ client[c].peer # "up" \/ client[c].sock # "open"
    /\ running_' = FALSE
    /\ client' = [client EXCEPT ![c].pc = "join"]
    /\ UNCHANGED <<restVars, state, state_, serverSocket_, clients_, clientsMutex_,
                   serverThread_, sender, stopper, budget>>

\* handle_client: one pass of the loop over the complete lines of
\* incomplete_message.  A line parse_message decodes goes to process_command,
\* which sends its response on the socket; any other line clears
\* telemetry_running and leaves the loops.
MainLine(c, now_ms, ok) ==
    /\ impl = "main"
    /\ client[c].pc = "lines"
    /\ LET line1 == FirstLine(client[c].lineBuffer)
           message_str == line1.message
           rest == line1.rest
       IN  IF ~line1.found
           THEN /\ ok
                /\ client' = [client EXCEPT ![c].pc = "recv"]
                /\ UNCHANGED <<state, running_>>
           ELSE IF MainDecoded[message_str].has
           THEN /\ ok \in SendResults(c)
                /\ state' = ProcessCommand[state][message_str][now_ms].state
                /\ client' =
                     LET took == [client EXCEPT ![c].lineBuffer = rest,
                                               ![c].taken = Append(@, message_str)]
                     IN  IF ok
                         THEN Written(took, c, ProcessCommand[state][message_str][now_ms].sent,
                                      c, Len(took[c].taken))
                         ELSE took
                /\ UNCHANGED running_
           ELSE /\ ok
                /\ client' = [client EXCEPT ![c].lineBuffer = rest,
                                            ![c].taken = Append(@, message_str),
                                            ![c].pc = "join"]
                /\ running_' = FALSE
                /\ UNCHANGED state
    /\ UNCHANGED <<restVars, state_, serverSocket_, clients_, clientsMutex_,
                   serverThread_, sender, stopper, budget>>

\* a variant of the end of handle_client that closes the socket without
\* waiting for the telemetry thread
MainJoinClose_ClosesUnjoined(c) ==
    /\ impl = "main"
    /\ client[c].pc = "join"
    /\ client' = [client EXCEPT ![c].sock = "closed", ![c].pc = "finished"]
    /\ serverThread_' = [serverThread_ EXCEPT !.pc = "accept"]
    /\ sender' = [sender EXCEPT ![ControlThread].pc =
                      IF sender[ControlThread].pc = "done" THEN "idle" ELSE @]
    /\ UNCHANGED <<restVars, state, state_, running_, serverSocket_, clients_,
                   clientsMutex_, stopper, budget>>

\* handle_client: telemetry_thread.join() returns once the telemetry thread
\* has ended, the socket is closed and handle_client returns to main()
MainJoinClose(c) ==
    /\ impl = "main"
    /\ client[c].pc = "join"
    /\ sender[ControlThread].pc = "done"
    /\ client' = [client EXCEPT ![c].sock = "closed", ![c].pc = "finished"]
    /\ serverThread_' = [serverThread_ EXCEPT !.pc = "accept"]
    /\ sender' = [sender EXCEPT ![ControlThread].pc = "idle"]
    /\ UNCHANGED <<restVars, state, state_, running_, serverSocket_, clients_,
                   clientsMutex_, stopper, budget>>

NextMain ==
    \/ \E c \in Clients : HandleClient(c)
    \/ TelemetryCheck
    \/ \E now_ms \in Clock : \E ok \in BOOLEAN : TelemetrySend(now_ms, ok)
    \/ \E now_ms \in Clock : TelemetrySendBlocked(now_ms)
    \/ \E ok \in BOOLEAN : TelemetrySendRest(ok)
    \/ \E c \in Clients : \E chunk \in Chunks[impl] \cup {LineTail(impl)} : MainRecv(c, chunk)
    \/ \E c \in Clients : MainRecvEnd(c)
    \/ \E c \in Clients : \E now_ms \in Clock : \E ok \in BOOLEAN : MainLine(c, now_ms, ok)
    \/ \E c \in Clients : MainJoinClose(c)

\* either server, as Init chooses
NextServer == NextIpcServer \/ NextMain

SpecServer == Init /\ [][NextServer]_vars


(***************************************************************************)
(* Claims about the connections.                                           *)
(***************************************************************************)

\* the decoder behind the server accepts the line
Decodes(l) == IF impl = "main" THEN MainDecoded[l].has ELSE ProtoDecoded[l].kind = "ok"

\* C12: once a line taken from a connection fails to decode, no later line of
\* that connection is taken, not even one already buffered behind it, and
\* its handler does not go back to reading.
C12_BadLineEndsConnection ==
    \A c \in Clients : \A k \in 1..Len(client[c].taken) :
        ~Decodes(client[c].taken[k])
            => /\ k = Len(client[c].taken)
               /\ client[c].pc # "recv"


\* the complete lines of a byte stream, in order: the bytes between the
\* newlines
RECURSIVE StreamLines(_, _)
StreamLines(bytes, from) ==
    LET pos == Find(bytes, "\n", from)
    IN  IF pos = NPOS
        THEN <<>>
        ELSE <<Substr(bytes, from, pos - from)>> \o StreamLines(bytes, pos + 1)

\* a line as the dispatcher behind IpcServer gets it: without its CR
WithoutCR(l) ==
    IF l # "" /\ CharAt(l, Len(l) - 1) = "\r" THEN Substr(l, 0, Len(l) - 1) ELSE l

\* the commands of a byte stream, in the order received: for main.cpp its
\* lines, for IpcServer its lines without CR that are not empty
StreamCommands(bytes) ==
    LET ls == StreamLines(bytes, 0)
    IN  IF impl = "main"
        THEN ls
        ELSE SelectSeq([k \in 1..Len(ls) |-> WithoutCR(ls[k])], LAMBDA l : l # "")

IsPrefix(s, t) == Len(s) <= Len(t) /\ \A k \in 1..Len(s) : s[k] = t[k]

\* C13: on every connection the lines are taken in the order of the bytes
\* its handler buffered, and the responses one connection's commands get are written, on
\* every socket they are written to, in the order of the commands they answer.
C13_AcksInOrderReceived ==
    \A c \in Clients :
        /\ IsPrefix(client[c].taken, StreamCommands(client[c].appended))
        /\ \A d \in Clients : \A p, q \in 1..Len(client[d].wire) :
              /\ p < q
              /\ client[d].wire[p].by = c
              /\ client[d].wire[q].by = c
              => client[d].wire[p].re < client[d].wire[q].re

\* two different commands of one connection have both been answered on it
C13_Witness ==
    \E c \in Clients : \E p, q \in 1..Len(client[c].wire) :
        /\ client[c].wire[p].by = c
        /\ client[c].wire[q].by = c
        /\ client[c].wire[p].re = 1
        /\ client[c].wire[q].re = 2
        /\ client[c].taken[1] # client[c].taken[2]


\* C14: a response is written to the connection its command arrived on and
\* to no other: every response on the wire of a socket answers that socket.
C14_ResponseToSenderOnly ==
    \A d \in Clients : \A p \in 1..Len(client[d].wire) :
        client[d].wire[p].by \in Clients => client[d].wire[p].by = d

\* C15: no thread calls ::send on a socket while it holds clientsMutex_.
C15_NoWriteUnderLock ==
    \A t \in SendThreads :
        sender[t].pc = "loop" /\ sender[t].i <= Len(clients_) => clientsMutex_ # t

(***************************************************************************)
(* Claims about a broadcast, IpcServer::send.                              *)
(***************************************************************************)

\* the thread t has returned from a broadcast
Returned(t) == sender[t].pc = "returned"

C17_NoChangeDuringPass ==
    \A t \in SendThreads :
        sender[t].pc = "loop"
            => /\ clients_ = sender[t].live
               /\ Range(sender[t].deadClients) \subseteq Range(clients_)

\* a pass has recorded a failed socket and has another socket still to write
C17_Witness ==
    \E t \in SendThreads :
        /\ sender[t].pc = "loop"
        /\ sender[t].deadClients # <<>>
        /\ sender[t].i <= Len(clients_)

\* C18: a broadcast returns having attempted one write on each socket that was
\* registered when it began, in their order, and on no other; one that began
\* with no socket registered returns with no socket written or closed and
\* clients_ as it was.
C18_OneWritePerClient ==
    [][\A t \in SendThreads :
          sender[t].pc = "loop" /\ sender'[t].pc = "returned"
              => /\ sender[t].tried = sender[t].live
                 /\ sender[t].live = <<>>
                      => /\ clients_' = clients_
                         /\ \A c \in Clients :
                               /\ client'[c].wire = client[c].wire
                               /\ client'[c].sock = client[c].sock]_vars

\* one broadcast has returned from an empty clients_, another after writing
\* to two sockets
C18_Witness ==
    /\ Returned(ControlThread)
    /\ sender[ControlThread].live = <<>>
    /\ \E t \in Clients : Returned(t) /\ Len(sender[t].tried) = 2

\* C19: once stop has returned, no client handler is still running.
C19_StopWaitsForHandlers ==
    stopper = "returned" => \A c \in Clients : client[c].pc \in {"none", "finished"}

\* C20: a handler whose read ended takes no further line and goes on to
\* deregister; once it has, its socket is not in clients_ and nothing is
\* written to it any more.
C20_EndedConnectionLeavesLiveSet ==
    [][\A c \in Clients :
          /\ client[c].pc \in {"erase", "join"}
                => /\ client'[c].pc \in {"erase", "join", "close", "finished"}
                   /\ client'[c].taken = client[c].taken
          /\ client[c].pc \in {"close", "finished"}
                => /\ c \notin Range(clients_)
                   /\ client'[c].wire = client[c].wire]_vars

\* the peer of socket 1 is gone, its handler has finished, and a broadcast
\* that began with only socket 2 registered has returned
C20_Witness ==
    /\ client[1].pc = "finished"
    /\ client[1].peer # "up"
    /\ \E t \in SendThreads : Returned(t) /\ sender[t].live = <<2>>


(***************************************************************************)
(* Claims about framing.                                                   *)
(***************************************************************************)

\* the bytes of a stream behind its last newline
RECURSIVE StreamTail(_, _)
StreamTail(bytes, from) ==
    LET pos == Find(bytes, "\n", from)
    IN  IF pos = NPOS THEN SubstrFrom(bytes, from) ELSE StreamTail(bytes, pos + 1)

\* C21: whenever the handler of a connection is about to read, the lines it
\* has dispatched are the newline-terminated lines of all the bytes received
\* on that connection and of no other, however the reads divided them, and
\* its buffer holds the unterminated tail for the next read.
C21_DispatchedEqualsLines ==
    \A c \in Clients :
        client[c].pc = "recv"
            => /\ client[c].taken = StreamCommands(client[c].received)
               /\ client[c].lineBuffer = StreamTail(client[c].received, 0)


\* C22: a step that takes a line off the buffer of a connection forwards
\* nothing and leaves the connection open and its handler in its loop when
\* the line is empty, or empty without one trailing CR; any other line is
\* forwarded without its trailing CR.
C22_EmptyLinesSkipped ==
    [][\A c \in Clients :
          LET line1 == FirstLine(client[c].lineBuffer)
          IN  /\ client[c].pc = "lines"
              /\ line1.found
              /\ client'[c].lineBuffer # client[c].lineBuffer
              => IF WithoutCR(line1.message) = ""
                 THEN /\ client'[c].taken = client[c].taken
                      /\ client'[c].pc = "lines"
                      /\ client'[c].sock = client[c].sock
                      /\ running_' = running_
                 ELSE client'[c].taken = Append(client[c].taken, WithoutCR(line1.message))]_vars


(***************************************************************************)
(* The codec of json_utils.hpp on its own: an envelope is built by         *)
(* serialize_message, framed as handle_client frames a line, and read back *)
(* by parse_message.                                                       *)
(***************************************************************************)

\* ipc::MessageType
MessageTypes == {"get_telemetry", "set_mode", "set_targets", "telemetry", "ack"}

\* the acks serialize_ack is given: those of process_command for a set_mode
\* command, and for a command whose type or mode holds a brace or a quote
AckPayloads ==
    { [command |-> "set_mode", status |-> "ok", message |-> Some("Mode set to IDLE")],
      [command |-> "set_mode", status |-> "ok", message |-> None],
      [command |-> "set_mode", status |-> "error",
       message |-> Some("Invalid mode value: \"a\"")],
      [command |-> "set_mode", status |-> "error",
       message |-> Some("Invalid mode value: }")],
      [command |-> "{x", status |-> "error",
       message |-> Some("Unknown command type: {x")] }

\* the payloads the program and its clients put into an envelope; of a
\* telemetry payload, the first reading and the faults
Payloads ==
    {"{}"}
    \cup { "{" \o ModeMember(m) \o "}" : m \in Modes \cup OtherModes }
    \cup { "{" \o TargetsMember(a, f) \o "}" : a \in {"42.5", ""}, f \in {"1.5", ""} }
    \cup {"{\"temps\":{\"vapour_head\":78.200000},\"faults\":[]}"}
    \cup { serialize_ack(ack) : ack \in AckPayloads }

\* before serialize_message is called with a type and a payload
CodecInit ==
    /\ impl = "main"
    /\ state = MainInitState
    /\ state_ = ProtoInitState
    /\ DispatchInit
    /\ ThreadsInit
    /\ ServerInit
    /\ controller = NoController
    /\ codec \in { [NotEncoding EXCEPT !.pc = "input", !.type = t, !.payload_json = p] :
                     t \in MessageTypes, p \in Payloads }

\* serialize_message(type, payload_json)
Encode ==
    /\ codec.pc = "input"
    /\ codec' = [codec EXCEPT !.pc = "encoded",
                              !.line = serialize_message(codec.type, codec.payload_json)]
    /\ UNCHANGED <<impl, state, state_, dispatchVars, threadVars, serverVars, controller>>

\* the receiver takes the bytes before the first newline as the line and
\* gives them to parse_message
Decode ==
    /\ codec.pc = "encoded"
    /\ LET newline_pos == FindChar(codec.line, "\n")
           message_str == Substr(codec.line, 0, newline_pos)
       IN  /\ newline_pos # NPOS
           /\ codec' = [codec EXCEPT !.pc = "decoded",
                                     !.decoded = parse_message(message_str)]
    /\ UNCHANGED <<impl, state, state_, dispatchVars, threadVars, serverVars, controller>>

NextCodec == Encode \/ Decode

SpecCodec == CodecInit /\ [][NextCodec]_vars

\* how many newlines the string holds
Newlines(s) == Cardinality({ k \in 0..(Len(s) - 1) : CharAt(s, k) = "\n" })

\* C23: the line serialize_message makes of a message type and a payload ends
\* with a newline and holds no other, and parse_message reads from it version
\* "v0", that type and that payload.
C23_RoundTrip ==
    /\ codec.pc \in {"encoded", "decoded"}
        => /\ Newlines(codec.line) = 1
           /\ CharAt(codec.line, Len(codec.line) - 1) = "\n"
    /\ codec.pc = "decoded"
        => /\ codec.decoded.has
           /\ codec.decoded.val.version = PROTOCOL_VERSION
           /\ codec.decoded.val.type = codec.type
           /\ codec.decoded.val.payload_json = codec.payload_json


(***************************************************************************)
(* Claims about the connections, continued.                                *)
(***************************************************************************)

\* C24: while the handler of an open connection reads and answers, and no
\* stop has been asked for, the thread that accepts connections is in its
\* accept loop, where it takes the next client: serving one client does not
\* keep a second one waiting until the first disconnects.
C24_SecondClientServed ==
    \A c \in Clients :
        /\ client[c].sock = "open"
        /\ client[c].pc \in {"recv", "lines", "answer"}
        /\ stopper = "idle"
        => serverThread_.pc \in {"accept", "register", "spawn"}


(***************************************************************************)
(* Claims about the dispatcher, continued (checked under Spec).            *)
(***************************************************************************)

\* C25: whatever line IPCProtocol::process_message is given, what it returns
\* is one ack, ok or error; and for a line that is not a JSON object the ack
\* is an error ack and the ControllerState is what it was.
C25_EveryLineAcked ==
    (impl = "proto" /\ response # "")
        => /\ is_ok_ack(response) \/ is_error_ack(response)
           /\ line \in NotObjectLines
                => is_error_ack(response) /\ state_ = prev


\* C26: every ack sent or returned for an envelope that names a type carries
\* a command equal to that type and the status ok or error, and an error ack
\* carries a message as well.
C26_AckNamesCommand ==
    (/\ ResponseField(response, "type") = "ack"
     /\ extract_json_field(line, "type").has)
        => /\ extract_json_field(response, "command").has
           /\ AckCommand(response) = extract_json_field(line, "type").val
           /\ ResponseField(response, "status") \in {"ok", "error"}
           /\ is_error_ack(response) => extract_json_field(response, "message").has


(***************************************************************************)
(* Claims about the threads, continued (checked under SpecThreads).        *)
(***************************************************************************)

\* C27: as long as no command has been begun, the ControllerState is mode
\* IDLE, target_abv 0.0 and target_flow 0.0, and every telemetry message
\* built so far reports that state.
C27_StartsIdleAtZero ==
    issued = 0
        => /\ Current.mode = "IDLE"
           /\ Current.target_abv = 0
           /\ Current.target_flow = 0
           /\ telemetry.has
                => telemetry.val
                     = Reported([mode |-> "IDLE", target_abv |-> 0, target_flow |-> 0])


(***************************************************************************)
(* controller/src/controller.cpp: Controller::Run and PublishTelemetry.    *)
(* A reading is held as the integer its product with the scale factor      *)
(* truncates to: temperatures and pressures in hundredths, the flow in     *)
(* tenths.  UpdateState and Config::GetSensorPresenceMap are stubs in the  *)
(* source; the readings and the presence map they are to deliver are       *)
(* inputs here.                                                            *)
(***************************************************************************)

INT16_MAX == 32767

INT16_MIN == -32768

UINT16_MAX == 65535

UINT8_MAX == 255

\* TelemetryMessage::VERSION
VERSION == 1

\* telemetry_interval_ms_
TelemetryIntervalMs == 200

\* how many passes of the loop of Run a run takes
MaxTicks == 3

\* the fields of TelemetryMessage that carry a channel
ScaledChannels ==
    {"temp_vapour_head", "temp_boiler_liquid", "temp_pcb_environment",
     "pressure_ambient", "pressure_vapour"}

PercentChannels == {"valve_reflux_control", "valve_product_takeoff", "heater_1", "heater_2"}

Channels == ScaledChannels \cup {"flow_ml_min"} \cup PercentChannels

\* enum SensorPresenceBits
SensorPresenceBit(ch) ==
    CASE ch = "temp_vapour_head"      -> 1
      [] ch = "temp_boiler_liquid"    -> 2
      [] ch = "temp_pcb_environment"  -> 4
      [] ch = "pressure_ambient"      -> 8
      [] ch = "pressure_vapour"       -> 16
      [] ch = "flow_ml_min"           -> 32
      [] ch = "valve_reflux_control"  -> 64
      [] ch = "valve_product_takeoff" -> 128
      [] ch = "heater_1"              -> 256
      [] ch = "heater_2"              -> 512

\* "sensor_presence_ & BIT" is not zero
Present(sensor_presence, ch) == (sensor_presence \div SensorPresenceBit(ch)) % 2 = 1

\* the value PublishTelemetry writes for a channel that is not present
Sentinel(ch) ==
    IF ch \in ScaledChannels THEN INT16_MAX
    ELSE IF ch = "flow_ml_min" THEN UINT16_MAX
    ELSE UINT8_MAX

\* what a conversion of a float outside the range of the integer type, which
\* is undefined, makes of it: the low bits, or the nearest bound
Conversions == {"wrap", "saturate"}

\* static_cast<int16_t>(x) of a float whose integer part is x
ToInt16(x, conversion) ==
    IF x >= INT16_MIN /\ x <= INT16_MAX THEN x
    ELSE IF conversion = "wrap" THEN ((x - INT16_MIN) % 65536) + INT16_MIN
    ELSE IF x < INT16_MIN THEN INT16_MIN ELSE INT16_MAX

\* static_cast<uint16_t>(x) of a float whose integer part is x
ToUint16(x, conversion) ==
    IF x >= 0 /\ x <= UINT16_MAX THEN x
    ELSE IF conversion = "wrap" THEN x % 65536
    ELSE IF x < 0 THEN 0 ELSE UINT16_MAX

\* struct ProcessState with a reading x on every scaled channel, a flow f and
\* a percentage p on every valve and heater
ProcessState(x, f, p) ==
    [temp_vapour_head_degc |-> x, temp_boiler_liquid_degc |-> x,
     temp_pcb_environment_degc |-> x, pressure_ambient_kpa |-> x,
     pressure_vapour_kpa |-> x, flow_ml_min |-> f,
     valve_reflux_percent |-> p, valve_product_percent |-> p,
     heater_1_percent |-> p, heater_2_percent |-> p, fault_flags |-> 0]

\* the readings UpdateState is to put into state_: 78.20 and -5.00 degrees,
\* 327.67 and 400.00; 240.0 ml/min, 6553.5 and 7000.0; 65 % and 100 %
SensorReadings ==
    { ProcessState(x, f, p) : x \in {7820, -500, 32767, 40000},
                              f \in {2400, 65535, 70000},
                              p \in {65, 100} }

\* the presence maps a configuration can hold: every sensor, none, every
\* other one
SensorPresenceMaps == {65535, 0, 341}

\* what TelemetryPublisher::Publish returns.  The Publish of the source sends
\* nothing and returns true; the one that writes to the clients can fail.
PublishResults == BOOLEAN

\* how long a pass of the loop of Run takes, the sleep included: the 100 ms
\* of the tick, or more when its work took more
TickDurations == {100, 250}

\* the values the uninitialized member current_mode_ can hold
IndeterminateModes == {0, 2}

\* the reading of state_ that goes into the field ch of the message, scaled
ScaledReading(st, ch) ==
    CASE ch = "temp_vapour_head"      -> st.temp_vapour_head_degc
      [] ch = "temp_boiler_liquid"    -> st.temp_boiler_liquid_degc
      [] ch = "temp_pcb_environment"  -> st.temp_pcb_environment_degc
      [] ch = "pressure_ambient"      -> st.pressure_ambient_kpa
      [] ch = "pressure_vapour"       -> st.pressure_vapour_kpa
      [] ch = "flow_ml_min"           -> st.flow_ml_min
      [] ch = "valve_reflux_control"  -> st.valve_reflux_percent
      [] ch = "valve_product_takeoff" -> st.valve_product_percent
      [] ch = "heater_1"              -> st.heater_1_percent
      [] ch = "heater_2"              -> st.heater_2_percent

\* one conditional expression of PublishTelemetry: the value of the field ch
EncodeChannel(c, ch, conversion) ==
    IF ~Present(c.sensor_presence_, ch) THEN Sentinel(ch)
    ELSE IF ch \in ScaledChannels THEN ToInt16(ScaledReading(c.state_, ch), conversion)
    ELSE IF ch = "flow_ml_min" THEN ToUint16(ScaledReading(c.state_, ch), conversion)
    ELSE ScaledReading(c.state_, ch)

\* the TelemetryMessage PublishTelemetry fills in
BuildTelemetryMessage(c, timestamp_ms, conversion) ==
    [ch \in Channels |-> EncodeChannel(c, ch, conversion)]
        @@ [version |-> VERSION, timestamp_ms |-> timestamp_ms, mode |-> c.current_mode_,
            faults |-> c.state_.fault_flags, sensor_presence |-> c.sensor_presence_]

\* after the constructor of Controller, at the top of the loop of Run
ControllerInit ==
    /\ impl = "main"
    /\ state = MainInitState
    /\ state_ = ProtoInitState
    /\ DispatchInit
    /\ ThreadsInit
    /\ ServerInit
    /\ codec = NotEncoding
    /\ controller \in
         { [pc |-> "tick", sensor_presence_ |-> sp, last_telemetry_ms_ |-> 0,
            state_ |-> ProcessState(0, 0, 0), current_mode_ |-> m, clock |-> 1000,
            now_ms |-> 0, ticks |-> 0, has_msg |-> FALSE, published |-> TRUE,
            publishes |-> 0, failures |-> 0, publish_tick |-> 0,
            msg |-> BuildTelemetryMessage(
                      [sensor_presence_ |-> sp, state_ |-> ProcessState(0, 0, 0),
                       current_mode_ |-> m], 0, "wrap")] :
             sp \in SensorPresenceMaps, m \in IndeterminateModes }

\* a variant of the pass that publishes without testing the interval
Tick_AlwaysPublishes(readings) ==
    /\ controller.pc = "tick"
    /\ controller.ticks < MaxTicks
    /\ readings \in SensorReadings
    /\ controller' =
         [controller EXCEPT
            !.state_ = readings,
            !.now_ms = controller.clock,
            !.ticks = @ + 1,
            !.pc = "publish"]
    /\ UNCHANGED <<impl, state, state_, dispatchVars, threadVars, serverVars, codec>>

\* Run, one pass: UpdateState reads the sensors into state_,
\* ExecuteControlLogic does nothing, the clock is read and the interval tested
Tick(readings) ==
    /\ controller.pc = "tick"
    /\ controller.ticks < MaxTicks
    /\ readings \in SensorReadings
    /\ controller' =
         [controller EXCEPT
            !.state_ = readings,
            !.now_ms = controller.clock,
            !.ticks = @ + 1,
            !.pc = IF controller.clock - controller.last_telemetry_ms_ >= TelemetryIntervalMs
                   THEN "publish" ELSE "sleep"]
    /\ UNCHANGED <<impl, state, state_, dispatchVars, threadVars, serverVars, codec>>

\* a variant of PublishTelemetry and its call that leaves the loop of Run when
\* Publish reports a failure
PublishTelemetry_StopsOnFailure(conversion, ok) ==
    /\ controller.pc = "publish"
    /\ conversion \in Conversions
    /\ ok \in PublishResults
    /\ controller' =
         [controller EXCEPT
            !.msg = BuildTelemetryMessage(controller, controller.now_ms, conversion),
            !.has_msg = TRUE,
            !.published = ok,
            !.publishes = @ + 1,
            !.failures = IF ok THEN @ ELSE @ + 1,
            !.publish_tick = controller.ticks,
            !.last_telemetry_ms_ = IF ok THEN controller.now_ms ELSE @,
            !.pc = IF ok THEN "sleep" ELSE "stopped"]
    /\ UNCHANGED <<impl, state, state_, dispatchVars, threadVars, serverVars, codec>>

\* PublishTelemetry(now_ms): the message is filled in, copied to the buffer
\* and given to TelemetryPublisher::Publish, whose result is tested and
\* dropped; then, in Run, last_telemetry_ms_ = now_ms.  published, publishes,
\* failures and publish_tick record the result of Publish, the calls made,
\* those that failed and the pass of the loop that made the last one.
PublishTelemetry(conversion, ok) ==
    /\ controller.pc = "publish"
    /\ conversion \in Conversions
    /\ ok \in PublishResults
    /\ controller' =
         [controller EXCEPT
            !.msg = BuildTelemetryMessage(controller, controller.now_ms, conversion),
            !.has_msg = TRUE,
            !.published = ok,
            !.publishes = @ + 1,
            !.failures = IF ok THEN @ ELSE @ + 1,
            !.publish_tick = controller.ticks,
            !.last_telemetry_ms_ = controller.now_ms,
            !.pc = "sleep"]
    /\ UNCHANGED <<impl, state, state_, dispatchVars, threadVars, serverVars, codec>>

\* Run: a pass that took less than 100 ms sleeps the rest of them, a longer
\* one does not sleep; tick_ms of the steady clock have passed when the next
\* pass begins
Sleep(tick_ms) ==
    /\ controller.pc = "sleep"
    /\ tick_ms \in TickDurations
    /\ controller' = [controller EXCEPT !.clock = @ + tick_ms, !.pc = "tick"]
    /\ UNCHANGED <<impl, state, state_, dispatchVars, threadVars, serverVars, codec>>

NextController ==
    \/ \E readings \in SensorReadings : Tick(readings)
    \/ \E conversion \in Conversions : \E ok \in PublishResults : PublishTelemetry(conversion, ok)
    \/ \E tick_ms \in TickDurations : Sleep(tick_ms)

SpecController == ControllerInit /\ [][NextController]_vars

\* C28: in every frame, the field of a channel holds the sentinel of its type
\* exactly if the bit of the channel is clear in the presence map of the
\* frame, and the field of a present channel holds the scaled reading itself,
\* not what is left of it in the width of the field.
C28_SentinelMeansAbsent ==
    [][controller.pc = "publish" /\ controller'.pc = "sleep"
          => \A ch \in Channels :
                /\ controller'.msg[ch] = Sentinel(ch)
                      <=> ~Present(controller'.msg.sensor_presence, ch)
                /\ Present(controller'.msg.sensor_presence, ch)
                      => controller'.msg[ch] = ScaledReading(controller.state_, ch)]_vars


\* the k-th line taken from the connection c has an answer on its socket
Answered(c, k) ==
    \E i \in 1..Len(client[c].wire) :
        client[c].wire[i].by = c /\ client[c].wire[i].re = k

\* C29: in main.cpp, once the write of the ack of a command has failed, no
\* further command of that connection is processed: the command whose ack
\* was not written is the last line taken from the connection.
C29_FailedAckDropsClient ==
    impl = "main"
        => \A c \in Clients : \A k \in 1..Len(client[c].taken) :
              (Decodes(client[c].taken[k]) /\ ~Answered(c, k))
                  => k = Len(client[c].taken)


\* C30: a set_targets command given to IPCProtocol::process_message without
\* target_abv is answered by an error ack that contains "target_abv", one
\* with target_abv and without target_flow by an error ack that contains
\* "target_flow", and neither target is changed by either.
C30_MissingTargetNamed ==
    impl = "proto"
        => \A a \in AbvTexts \cup {""}, f \in FlowTexts \cup {""} :
              (/\ a = "" \/ f = ""
               /\ line \in {SetTargetsEnvelope(a, f),
                            FlatLine("v0", "set_targets", TargetsMember(a, f))})
                  => /\ is_error_ack(response)
                     /\ Contains(response, IF a = "" THEN "target_abv" ELSE "target_flow")
                     /\ TargetsUnchanged


\* C31: a set_targets command whose target_abv or target_flow is a string is
\* answered by an error ack whose message contains "must be a number", and
\* neither target is changed: the other target of the command is not applied
\* as if the string had been left out.
C31_NonNumberRejected ==
    line \in InvalidTypeLines \cup {StringAbv}
        => /\ is_error_ack(response)
           /\ Contains(AckMessage(response), "must be a number")
           /\ TargetsUnchanged


\* C32: a set_mode command without a mode field, or with a mode that is a
\* number, is answered by an error ack whose message contains "mode", and the
\* mode stays what it was.
C32_BadModeRejected ==
    line \in InvalidModeLines
                \cup {FlatLine("v0", "set_mode", ""), FlatLine("v0", "set_mode", "\"mode\":123")}
        => /\ is_error_ack(response)
           /\ Contains(AckMessage(response), "mode")
           /\ Current.mode = prev.mode


\* C33: a line that changes target_abv or target_flow names the type
\* set_targets and is acked ok: set_mode, get_telemetry, unknown commands and
\* every line that is acked with an error leave both targets as they were,
\* so that targets set earlier are still there after a set_mode command.
C33_TargetsChangeOnlyBySetTargets ==
    ~TargetsUnchanged
        => /\ extract_json_field(line, "type") = Some("set_targets")
           /\ is_ok_ack(response)

\* C33's case: a set_mode command has changed the mode of a state whose
\* targets an earlier set_targets command had set, and the targets are kept
C33_Witness ==
    /\ line \in SetModeLines
    /\ is_ok_ack(response)
    /\ Current.mode # prev.mode
    /\ prev.target_abv = 425
    /\ prev.target_flow = 15
    /\ Current.target_abv = 425
    /\ Current.target_flow = 15


\* C34: a Publish that reports a failure does not end the loop of Run.  The
\* call of PublishTelemetry returns to the loop whatever Publish reports, the
\* pass after a failed Publish begins like any other, and a pass that finds
\* the telemetry interval elapsed publishes again although the last Publish
\* failed.
C34_FailedPublishGoesOn ==
    [][/\ controller.pc = "publish" => controller'.pc = "sleep"
       /\ controller.pc = "sleep" /\ ~controller.published => controller'.pc = "tick"
       /\ (/\ controller.pc = "tick"
           /\ ~controller.published
           /\ controller.clock - controller.last_telemetry_ms_ >= TelemetryIntervalMs)
              => controller'.pc = "publish"]_vars

\* C34's case: the first Publish failed, the loop went on and has published
\* again
C34_Witness ==
    /\ controller.pc = "sleep"
    /\ controller.publishes = 2
    /\ controller.failures = 1
    /\ controller.published


\* the step calls closesocket on the socket c of IpcServer: at the end of its
\* handler, among the dead clients of a send, or in cleanup
ClosesSocket(c) ==
    \/ client[c].pc = "close" /\ client'[c].pc = "finished"
    \/ \E t \in SendThreads :
          /\ sender[t].pc = "loop"
          /\ sender'[t].pc = "returned"
          /\ c \in Range(sender[t].deadClients)
    \/ stopper = "cleanup" /\ stopper' = "returned" /\ c \in Range(clients_)

\* C35: in IpcServer, whichever path closes the socket of a client (the end
\* of its handler, a failed write of a send, cleanup at stop) finds it open:
\* no path closes a descriptor that another path has closed before.
C35_ClosedOnce ==
    [][impl = "proto" => \A c \in Clients : ClosesSocket(c) => client[c].sock = "open"]_vars


\* C36: in main.cpp, while the telemetry thread of a client is in its loop,
\* where it may write to the socket, the socket is open; and a handler that
\* waits to join its telemetry thread has cleared telemetry_running.
C36_JoinedBeforeClose ==
    impl = "main"
        => /\ sender[ControlThread].pc \in {"check", "send", "sending"}
                 => client[serverThread_.clientSocket].sock = "open"
           /\ \A c \in Clients : client[c].pc = "join" => ~running_

\* C36's case: handle_client has returned after an undecodable line, with a
\* socket to which the telemetry thread had written, and the socket is closed
C36_Witness ==
    /\ impl = "main"
    /\ \E c \in Clients :
          /\ client[c].pc = "finished"
          /\ client[c].sock = "closed"
          /\ client[c].taken # <<>>
          /\ ~Decodes(client[c].taken[Len(client[c].taken)])
          /\ \E i \in 1..Len(client[c].wire) : client[c].wire[i].by = ControlThread


\* the bytes of one write end a line
Terminated(msg) == msg # "" /\ CharAt(msg, Len(msg) - 1) = "\n"

\* C37: in main.cpp the writes of the command path and of the telemetry
\* thread to the socket of a client do not overlap: bytes written by one
\* thread that do not end a line are followed on the socket by bytes of the
\* same thread, so that every line the client receives is one whole message.
C37_WritesDoNotOverlap ==
    impl = "main"
        => \A c \in Clients : \A i \in 1..Len(client[c].wire) :
              (~Terminated(client[c].wire[i].msg) /\ i < Len(client[c].wire))
                  => client[c].wire[i + 1].by = client[c].wire[i].by


\* C38: a call of IpcServer::stop on a server that is not running changes
\* nothing of the server; and from the return of a stop on a running server
\* on, running_ is false, the listening socket is closed, serverLoop has ended
\* and clients_ is empty, so that no connection accepted before the stop is
\* registered any more.
C38_StopLeavesQuiescent ==
    [][/\ stopper' = "returned"
             => /\ ~running_'
                /\ ~serverSocket_'
                /\ serverThread_'.pc = "ended"
                /\ clients_' = <<>>
       /\ (/\ impl = "proto"
           /\ ~running_
           /\ stopper \in {"idle", "returned"}
           /\ budget' # budget
           /\ client' = client
           /\ sender' = sender)
             => UNCHANGED <<running_, serverSocket_, clients_, serverThread_, stopper>>]_vars

\* C38's case: stop has returned on a server that had accepted a connection
\* whose handler is still running, and stop has been called once more (the
\* two calls are all that happened to the server from outside)
C38_Witness ==
    /\ stopper = "returned"
    /\ budget = MaxEvents - 2
    /\ \A t \in SendThreads : sender[t].pc = "idle"
    /\ \A c \in Clients : client[c].peer = "up" /\ client[c].received = ""
    /\ \E c \in Clients :
          /\ client[c].pc \notin {"none", "finished"}
          /\ client[c].sock = "closed"


\* C39: every frame Run publishes is the only one of its pass of the loop,
\* carries the reading of the clock of that pass, and that is at least
\* telemetry_interval_ms_ later than the timestamp of the frame before it,
\* and so never earlier.
C39_OncePerInterval ==
    [][controller.pc = "publish" /\ controller'.pc = "sleep"
          => /\ controller.publish_tick < controller.ticks
             /\ controller'.msg.timestamp_ms = controller.clock
             /\ controller.has_msg
                   => controller'.msg.timestamp_ms - controller.msg.timestamp_ms
                          >= TelemetryIntervalMs]_vars

\* C39's case: the first and the third pass have published a frame and the
\* second, 100 ms after the first, has not
C39_Witness ==
    /\ controller.pc = "sleep"
    /\ controller.ticks = 3
    /\ controller.publishes = 2
    /\ controller.publish_tick = 3
    /\ controller.msg.timestamp_ms = 1200



(***************************************************************************)
(* main.cpp under fair scheduling: a thread of the program that can take   *)
(* its next step takes it.  What the peer does, closing, resetting or      *)
(* reading what was sent to it, is left to the peer; a send that waits for *)
(* room returns by itself only once the connection is gone.                *)
(***************************************************************************)

\* the steps of the thread of main() and handle_client
HandlerStep ==
    \/ \E c \in Clients : MainRecvEnd(c)
    \/ \E c \in Clients : \E now_ms \in Clock : \E ok \in BOOLEAN : MainLine(c, now_ms, ok)
    \/ \E c \in Clients : MainJoinClose(c)

\* the steps of the telemetry thread that wait for nothing but the processor
TelemetryStep ==
    \/ TelemetryCheck
    \/ \E now_ms \in Clock : \E ok \in BOOLEAN : TelemetrySend(now_ms, ok)
    \/ TelemetrySendRest(FALSE)

SpecServerFair ==
    /\ Init
    /\ [][NextServer]_vars
    /\ WF_vars(HandlerStep)
    /\ WF_vars(TelemetryStep)

\* the connection of the socket c has ended: its peer is gone while the
\* handler reads, or the handler has left its loops and waits for the
\* telemetry thread
ConnectionEnded(c) ==
    /\ impl = "main"
    /\ \/ client[c].pc = "join"
       \/ client[c].pc = "recv" /\ client[c].sock = "open" /\ client[c].peer # "up"

\* C40: under fair scheduling, once the connection of a client of main.cpp
\* has ended, handle_client returns: the telemetry thread has ended, the
\* socket is closed and main() is back at accept.
C40_HandleClientTerminates ==
    \A c \in Clients :
        ConnectionEnded(c)
            ~> /\ client[c].pc = "finished"
               /\ client[c].sock = "closed"
               /\ sender[ControlThread].pc = "idle"
               /\ serverThread_.pc = "accept"

=============================================================================
